---- MODULE Spec2Model ----
(***************************************************************************)
(* Model of the TMDB title resolver of rss-tv-monitor                      *)
(* (src/unnamed/part_005, class TMDBService): the result cache, the        *)
(* request-interval limiter, the query planner and the search loop of      *)
(* smartSearch / performOptimizedSearch, run by concurrent callers that    *)
(* share the one exported service instance.                                *)
(*                                                                         *)
(* Strings are sequences of one-character strings.  Time is counted in     *)
(* ticks of 2000 ms.  A step of a caller is everything the JavaScript      *)
(* runs between two suspension points (a timer or an HTTP response).       *)
(***************************************************************************)
EXTENDS Integers, Sequences, FiniteSets, TLC

\* ------------------------------------------------------------------ bounds
MaxTime == 4            \* the clock stops advancing here
MaxCacheSize == 2       \* stands for the 1000 of setCachedResult
CacheExpireTicks == 2   \* stands for the 24 h of cacheExpireTime

\* ------------------------------------------------------- program constants
MinRequestInterval == 1 \* minRequestInterval = 2000 ms, one tick
LowScore == 25          \* combined stage: score > 25
SeparateScore == 30     \* TV-only / movie-only stage: score > 30
WeakScore == 65         \* bestResult.score < 65 triggers the separate searches
StrongScore == 75       \* score >= 75 returns early
YearBonus == 25         \* item.score += 25
MinYear == 1900         \* year >= 1900
CurrentYear == 2026     \* new Date().getFullYear()

NoYear == 0             \* extractYearFromQuery returns null
Retries == 0            \* makeRequest(endpoint, params, retries = 0)

\* ----------------------------------------------------------------- strings
Digits == <<"0", "1", "2", "3", "4", "5", "6", "7", "8", "9">>

IsDigit(c) == \E i \in 1..10 : Digits[i] = c
DigitVal(c) == (CHOOSE i \in 1..10 : Digits[i] = c) - 1
\* \w of the regular expressions
IsWordChar(c) == c \in {"a", "b", "c", "d", "x", "y"} \/ IsDigit(c) \/ c = "_"
\* \s and the characters String.prototype.trim removes: the space and the
\* line feed ("LF")
White == {" ", "LF"}
IsSpace(c) == c \in White

RECURSIVE TrimLeft(_)
TrimLeft(s) == IF s # <<>> /\ IsSpace(Head(s)) THEN TrimLeft(Tail(s)) ELSE s

RECURSIVE TrimRight(_)
TrimRight(s) ==
    IF s # <<>> /\ IsSpace(s[Len(s)]) THEN TrimRight(SubSeq(s, 1, Len(s) - 1)) ELSE s

\* String.prototype.trim
Trim(s) == TrimRight(TrimLeft(s))

\* s.slice(0, n)
Slice(s, n) == [i \in 1..(IF Len(s) < n THEN Len(s) ELSE n) |-> s[i]]

\* s.includes(t)
Includes(s, t) ==
    \E i \in 1..(Len(s) - Len(t) + 1) : SubSeq(s, i, i + Len(t) - 1) = t

\* \b at position i (between s[i-1] and s[i]) of s
WordBoundary(s, i) ==
    LET before == i > 1 /\ IsWordChar(s[i - 1])
        after == i <= Len(s) /\ IsWordChar(s[i])
    IN  before # after

\* positions where /\b\d{4}\b/ matches
FourDigitsAt(s, i) ==
    /\ i + 3 <= Len(s)
    /\ \A k \in i..(i + 3) : IsDigit(s[k])
    /\ WordBoundary(s, i)
    /\ WordBoundary(s, i + 4)

\* cleanQuery.replace(/\b(\d{4}|\d{3,4}p|HD|...)\b/gi, ''): of the
\* alternatives of the token patterns of lines 230-234 only \d{4} can match
\* a string over Letters, Digits, " ", "-" and "|"
RECURSIVE StripTokensFrom(_, _)
StripTokensFrom(s, i) ==
    IF i > Len(s) THEN <<>>
    ELSE IF FourDigitsAt(s, i) THEN StripTokensFrom(s, i + 4)
    ELSE <<s[i]>> \o StripTokensFrom(s, i + 1)

StripTokens(s) == StripTokensFrom(s, 1)

\* cleanQuery.replace(/[\-_]+/g, ' ')
RECURSIVE DashesToSpace(_)
DashesToSpace(s) ==
    IF s = <<>> THEN <<>>
    ELSE IF Head(s) \in {"-", "_"}
         THEN IF Len(s) > 1 /\ s[2] \in {"-", "_"}
              THEN DashesToSpace(Tail(s))
              ELSE <<" ">> \o DashesToSpace(Tail(s))
         ELSE <<Head(s)>> \o DashesToSpace(Tail(s))

\* cleanQuery.replace(/\s+/g, ' ')
RECURSIVE CollapseSpaces(_)
CollapseSpaces(s) ==
    IF s = <<>> THEN <<>>
    ELSE IF IsSpace(Head(s)) /\ Len(s) > 1 /\ IsSpace(s[2])
         THEN CollapseSpaces(Tail(s))
         ELSE <<Head(s)>> \o CollapseSpaces(Tail(s))

\* the separators of subtitleSeparators that a cleaned string can contain
\* (dashes were replaced by spaces before the split)
SubtitleSeparators == << <<" ", "|", " ">> >>

\* index of the first occurrence of t in s, 0 when absent
IndexOf(s, t) ==
    IF Includes(s, t)
    THEN CHOOSE i \in 1..(Len(s) - Len(t) + 1) :
            /\ SubSeq(s, i, i + Len(t) - 1) = t
            /\ \A j \in 1..(i - 1) : SubSeq(s, j, j + Len(t) - 1) # t
    ELSE 0

\* cleanQuery.split(sep)[0].trim()
MainTitle(s, sep) == Trim(SubSeq(s, 1, IndexOf(s, sep) - 1))

\* the loop over subtitleSeparators: the first separator that yields a
\* main title longer than 2 characters, as a list of 0 or 1 strings
RECURSIVE MainTitles(_, _)
MainTitles(s, k) ==
    IF k > Len(SubtitleSeparators) THEN <<>>
    ELSE LET sep == SubtitleSeparators[k]
             main == MainTitle(s, sep)
         IN  IF Includes(s, sep) /\ main # <<>> /\ main # s /\ Len(main) > 2
             THEN <<main>>
             ELSE MainTitles(s, k + 1)

\* [...new Set(v)].filter(v => v.length > 2).sort((a, b) => b.length - a.length)
\* for a list of at most two strings (the sort is stable)
UniqueLongestFirst(v) ==
    LET u == IF Len(v) = 2 /\ v[1] = v[2] THEN <<v[1]>> ELSE v
        f == SelectSeq(u, LAMBDA q : Len(q) > 2)
    IN  IF Len(f) = 2 /\ Len(f[2]) > Len(f[1]) THEN <<f[2], f[1]>> ELSE f

preprocessQuery(query) ==
    IF query = <<>> THEN <<>>
    ELSE LET cleanQuery == Trim(CollapseSpaces(DashesToSpace(StripTokens(Trim(query)))))
             variants == IF Len(cleanQuery) > 2
                         THEN <<cleanQuery>> \o MainTitles(cleanQuery, 1)
                         ELSE <<>>
             uniqueVariants == UniqueLongestFirst(variants)
         IN  Slice(uniqueVariants, 1)

\* generatePrioritizedQueries that also plans the cleaned localized title
generatePrioritizedQueriesBoth(title, chineseTitle) ==
    LET pre == preprocessQuery(title)
        own == IF Trim(title) = <<>> THEN <<>>
               ELSE IF pre # <<>> /\ pre[1] # Trim(title)
                    THEN <<Trim(title), pre[1]>>
                    ELSE <<Trim(title)>>
    IN  Slice(own \o preprocessQuery(chineseTitle), 2)

\* lines 444-460: the trimmed title, then the first variant of
\* preprocessQuery(title) when it differs; chineseTitle is not read
generatePrioritizedQueries(title, chineseTitle) ==
    IF Trim(title) = <<>> THEN <<>>
    ELSE LET pre == preprocessQuery(title)
         IN  IF pre # <<>> /\ pre[1] # Trim(title)
             THEN <<Trim(title), pre[1]>>
             ELSE <<Trim(title)>>

\* the positions where /\b(19|20)\d{2}\b/ matches
YearAt(s, i) ==
    /\ FourDigitsAt(s, i)
    /\ <<s[i], s[i + 1]>> \in {<<"1", "9">>, <<"2", "0">>}

YearValue(s, i) ==
    1000 * DigitVal(s[i]) + 100 * DigitVal(s[i + 1])
        + 10 * DigitVal(s[i + 2]) + DigitVal(s[i + 3])

extractYearFromQuery(query) ==
    IF \E i \in 1..Len(query) : YearAt(query, i)
    THEN LET i == CHOOSE k \in 1..Len(query) :
                    YearAt(query, k) /\ \A j \in 1..(k - 1) : ~YearAt(query, j)
             year == YearValue(query, i)
         IN  IF year >= MinYear /\ year <= CurrentYear + 2 THEN year ELSE NoYear
    ELSE NoYear

\* `${title}|${chineseTitle || ''}`
CacheKey(title, chineseTitle) == title \o <<"|">> \o chineseTitle

\* ------------------------------------------------------------ the catalog
\* a search result: id, media_type, score = calculateRelevanceScore(result,
\* query), year = the year of release_date || first_air_date (0: no date)
Cand(id, mt, score, year) == [id |-> id, media_type |-> mt, score |-> score, year |-> year]

\* data.results of a successful response: up to MaxResults candidates, each
\* catalog entry at most once (no two candidates score the same, so the
\* order of a list does not decide a ranking; lists are taken in id order)
MaxResults == 2
ResultLists ==
    LET Candidates ==
            { Cand(1, "tv", 25, 0), Cand(2, "tv", 26, 0), Cand(3, "tv", 80, 0),
              Cand(4, "movie", 31, 0), Cand(5, "tv", 10, 2024),
              Cand(6, "person", 95, 0) }
    IN  UNION { {r \in [1..n -> Candidates] :
                    \A i \in 1..n : \A j \in 1..n : i < j => r[i].id < r[j].id} :
                n \in 0..MaxResults }

\* what a request can end with: axios.get rejects (network error, timeout,
\* 5xx), or resolves with data.results; every item of a successful response
\* is a well-formed result (string title, numeric id), so scoring never throws
Fail == [ok |-> FALSE, results |-> <<>>]
Responses == {Fail} \cup {[ok |-> TRUE, results |-> r] : r \in ResultLists}

\* the arguments smartSearch is called with
EmptyTitle == << <<>>, <<"x", "|", "y">> >>          \* ("", "x|y")
BlankTitle == << <<" ">>, <<>> >>                     \* (" ", undefined)
ShortTitle == << <<"|", "x">>, <<"y">> >>             \* ("|x", "y")
DashTitle == << <<"a", "b", "-", "c", "d">>, <<>> >>  \* ("ab-cd", undefined)
YearTitle == << <<"a", "b", "c", " ", "2", "0", "2", "4">>, <<>> >>

\* the configurations that the Settings page (line 197) and extractTVShows
\* (part_003, lines 629-632) pass to setConfig: they name no proxy.  proxy
\* stands for config.proxy?.enabled && config.proxy.host.
Enabled == [enabled |-> TRUE, apiKey |-> "key", proxy |-> FALSE]
Disabled == [enabled |-> FALSE, apiKey |-> "key", proxy |-> FALSE]

Procs == {1, 2}

\* ------------------------------------------------------------------- state
VARIABLES
    config,             \* TMDBService.config
    searchCache,        \* TMDBService.searchCache, in insertion order
    lastRequestTime,    \* TMDBService.lastRequestTime
    now,                \* Date.now()
    locals,             \* per caller: the frame of its smartSearch call
    obs,                \* per caller: what an observer of the call records
    lastStart,          \* start time of the latest outbound request
    watch,              \* a completed call an observer remembers
    scoredResults,      \* the results of one search stage being scored
    item,               \* the feed item whose titles are being extracted
    server,             \* src/server/index.js: sources, switch and timers
    app                 \* the store of the page and its running refreshes

vars == <<config, searchCache, lastRequestTime, now, locals, obs, lastStart, watch,
          scoredResults, item, server, app>>

\* what is not part of a call of smartSearch: the two computations, the
\* server and the page
pure == <<scoredResults, item, server, app>>

\* !this.config.enabled || !this.config.apiKey
Configured(cfg) == cfg.enabled /\ cfg.apiKey # ""

Abs(n) == IF n < 0 THEN -n ELSE n

\* ------------------------------------------------------------------- cache
KeyIndex(cache, key) ==
    IF \E i \in 1..Len(cache) : cache[i].key = key
    THEN CHOOSE i \in 1..Len(cache) : cache[i].key = key
    ELSE 0

\* a string | null result: the null, and the link of a catalog entry
NoUrl == [media_type |-> "none", id |-> 0]
Url(mt, id) == [media_type |-> mt, id |-> id]

\* the placeholder for "no entry"
NoEntry == [key |-> <<>>, result |-> NoUrl, timestamp |-> -1, owner |-> <<>>]

RemoveAt(cache, i) == SubSeq(cache, 1, i - 1) \o SubSeq(cache, i + 1, Len(cache))

\* getCachedResult with the expiry test >= instead of >
getCachedResultEarlyExpiry(cache, cacheKey, t) ==
    LET i == KeyIndex(cache, cacheKey)
    IN  IF i = 0
        THEN [found |-> FALSE, result |-> NoUrl, cache |-> cache]
        ELSE IF ~(t - cache[i].timestamp >= CacheExpireTicks)
             THEN [found |-> TRUE, result |-> cache[i].result, cache |-> cache]
             ELSE [found |-> FALSE, result |-> NoUrl, cache |-> RemoveAt(cache, i)]

\* getCachedResult that moves the entry it returns to the end of the map
getCachedResultTouch(cache, cacheKey, t) ==
    LET i == KeyIndex(cache, cacheKey)
    IN  IF i = 0
        THEN [found |-> FALSE, result |-> NoUrl, cache |-> cache]
        ELSE IF ~(t - cache[i].timestamp > CacheExpireTicks)
             THEN [found |-> TRUE, result |-> cache[i].result,
                   cache |-> Append(RemoveAt(cache, i), cache[i])]
             ELSE [found |-> FALSE, result |-> NoUrl, cache |-> RemoveAt(cache, i)]

\* getCachedResult that never expires an entry
getCachedResultNoExpiry(cache, cacheKey, t) ==
    LET i == KeyIndex(cache, cacheKey)
    IN  IF i = 0
        THEN [found |-> FALSE, result |-> NoUrl, cache |-> cache]
        ELSE [found |-> TRUE, result |-> cache[i].result, cache |-> cache]

\* getCachedResult: found tells a valid entry from the undefined result
getCachedResult(cache, cacheKey, t) ==
    LET i == KeyIndex(cache, cacheKey)
    IN  IF i = 0
        THEN [found |-> FALSE, result |-> NoUrl, cache |-> cache]
        ELSE IF ~(t - cache[i].timestamp > CacheExpireTicks)
             THEN [found |-> TRUE, result |-> cache[i].result, cache |-> cache]
             ELSE [found |-> FALSE, result |-> NoUrl, cache |-> RemoveAt(cache, i)]

\* setCachedResult that caches links only
setCachedResultLinksOnly(cache, cacheKey, result, t, owner) ==
    LET entry == [key |-> cacheKey, result |-> result, timestamp |-> t, owner |-> owner]
        i == KeyIndex(cache, cacheKey)
        set == IF i = 0 THEN Append(cache, entry) ELSE [cache EXCEPT ![i] = entry]
    IN  IF result = NoUrl THEN cache
        ELSE IF Len(set) > MaxCacheSize THEN Tail(set) ELSE set

\* setCachedResult; owner (the writing caller and its title pair) is an
\* observer's annotation of the entry
setCachedResult(cache, cacheKey, result, t, owner) ==
    LET entry == [key |-> cacheKey, result |-> result, timestamp |-> t, owner |-> owner]
        i == KeyIndex(cache, cacheKey)
        set == IF i = 0 THEN Append(cache, entry) ELSE [cache EXCEPT ![i] = entry]
    IN  IF Len(set) > MaxCacheSize THEN Tail(set) ELSE set

\* ------------------------------------------------------------ search loop
PageSize == 10          \* results.slice(0, 10)

\* bestResult = null
NoBest == [url |-> NoUrl, score |-> -1]

\* bestResult ? bestResult.url : null
UrlOf(best) == IF best = NoBest THEN NoUrl ELSE best.url

\* the year-match bonus of one result
Bonus(result, extractedYear) ==
    IF extractedYear # NoYear /\ result.year # 0
       /\ Abs(result.year - extractedYear) <= 1
    THEN YearBonus ELSE 0

\* index of the first element of the list after a stable sort by
\* descending score, among the indices in I (0 when I is empty)
TopIndex(scores, I) ==
    IF I = {} THEN 0
    ELSE CHOOSE i \in I :
            \A j \in I : scores[j] < scores[i] \/ (scores[j] = scores[i] /\ j >= i)

\* searchMulti on a response: [] when the request failed
MultiResults(resp) ==
    IF ~resp.ok THEN <<>>
    ELSE Slice(resp.results, PageSize)

\* searchTV / searchMovie on a response: every item gets the media type
TypedResults(resp, mt) ==
    IF ~resp.ok THEN <<>>
    ELSE [i \in 1..Len(resp.results) |-> [resp.results[i] EXCEPT !.media_type = mt]]

\* FoldMulti whose movie branch lacks the !url.includes('/tv/') test
FoldMultiNoTvGuard(best, results, extractedYear) ==
    LET scores == [i \in 1..Len(results) |->
                        results[i].score + Bonus(results[i], extractedYear)]
        tv == TopIndex(scores, {i \in 1..Len(results) : results[i].media_type = "tv"})
        mv == TopIndex(scores, {i \in 1..Len(results) : results[i].media_type = "movie"})
        b1 == IF tv # 0 /\ scores[tv] > LowScore
                 /\ (best = NoBest \/ scores[tv] > best.score)
              THEN [url |-> Url("tv", results[tv].id), score |-> scores[tv]]
              ELSE best
        b2 == IF mv # 0 /\ scores[mv] > LowScore
                 /\ (b1 = NoBest \/ scores[mv] > b1.score)
              THEN [url |-> Url("movie", results[mv].id), score |-> scores[mv]]
              ELSE b1
    IN  b2

\* FoldMulti that keeps a score of exactly 25
FoldMultiAtLeast(best, results, extractedYear) ==
    LET scores == [i \in 1..Len(results) |->
                        results[i].score + Bonus(results[i], extractedYear)]
        tv == TopIndex(scores, {i \in 1..Len(results) : results[i].media_type = "tv"})
        mv == TopIndex(scores, {i \in 1..Len(results) : results[i].media_type = "movie"})
        b1 == IF tv # 0 /\ scores[tv] >= LowScore
                 /\ (best = NoBest \/ scores[tv] > best.score)
              THEN [url |-> Url("tv", results[tv].id), score |-> scores[tv]]
              ELSE best
        b2 == IF mv # 0 /\ scores[mv] >= LowScore
                 /\ (b1 = NoBest \/ (scores[mv] > b1.score /\ b1.url.media_type # "tv"))
              THEN [url |-> Url("movie", results[mv].id), score |-> scores[mv]]
              ELSE b1
    IN  b2

\* lines 482-524: the combined stage folds the best TV result, then the
\* best movie result into bestResult
FoldMulti(best, results, extractedYear) ==
    LET scores == [i \in 1..Len(results) |->
                        results[i].score + Bonus(results[i], extractedYear)]
        tv == TopIndex(scores, {i \in 1..Len(results) : results[i].media_type = "tv"})
        mv == TopIndex(scores, {i \in 1..Len(results) : results[i].media_type = "movie"})
        b1 == IF tv # 0 /\ scores[tv] > LowScore
                 /\ (best = NoBest \/ scores[tv] > best.score)
              THEN [url |-> Url("tv", results[tv].id), score |-> scores[tv]]
              ELSE best
        b2 == IF mv # 0 /\ scores[mv] > LowScore
                 /\ (b1 = NoBest \/ (scores[mv] > b1.score /\ b1.url.media_type # "tv"))
              THEN [url |-> Url("movie", results[mv].id), score |-> scores[mv]]
              ELSE b1
    IN  b2

\* FoldSeparate without the returns of lines 549-552 and 578-581
FoldSeparateNoReturn(best, results, extractedYear, mt) ==
    LET top == TopIndex([i \in 1..Len(results) |-> results[i].score],
                        1..Len(results))
        score == results[top].score + Bonus(results[top], extractedYear)
        take == /\ top # 0
                /\ score > SeparateScore
                /\ \/ best = NoBest
                   \/ /\ score > best.score
                      /\ (mt = "tv" \/ best.url.media_type # "tv")
    IN  IF take
        THEN [best |-> [url |-> Url(mt, results[top].id), score |-> score],
              early |-> FALSE]
        ELSE [best |-> best, early |-> FALSE]

\* lines 529-585: the top result of a TV-only or movie-only search, ranked
\* by calculateRelevanceScore alone, with its year bonus added afterwards;
\* early tells the `return tmdbUrl` of a score >= 75
FoldSeparate(best, results, extractedYear, mt) ==
    LET top == TopIndex([i \in 1..Len(results) |-> results[i].score],
                        1..Len(results))
        score == results[top].score + Bonus(results[top], extractedYear)
        take == /\ top # 0
                /\ score > SeparateScore
                /\ \/ best = NoBest
                   \/ /\ score > best.score
                      /\ (mt = "tv" \/ best.url.media_type # "tv")
    IN  IF take
        THEN [best |-> [url |-> Url(mt, results[top].id), score |-> score],
              early |-> score >= StrongScore]
        ELSE [best |-> best, early |-> FALSE]

\* the frame of a call that is not running
IdleLocal ==
    [pc |-> "idle", title |-> <<>>, chineseTitle |-> <<>>, cacheKey |-> <<>>,
     queries |-> <<>>, qi |-> 0, extractedYear |-> NoYear, best |-> NoBest,
     op |-> "none", wake |-> 0, result |-> NoUrl, attempt |-> 0]

\* Finish that goes on to the next query of the list unless the best score
\* is 75 or more
FinishOrNextQuery(l) ==
    IF l.qi < Len(l.queries) /\ (l.best = NoBest \/ l.best.score < StrongScore)
    THEN [l EXCEPT !.qi = @ + 1, !.pc = "wait", !.op = "multi", !.wake = 0]
    ELSE [l EXCEPT !.pc = "store", !.result = UrlOf(l.best), !.op = "none"]

\* Finish that searches the same query again while there is no best result
FinishOrSearchAgain(l) ==
    IF l.best = NoBest /\ l.queries # <<>>
    THEN [l EXCEPT !.pc = "wait", !.op = "multi", !.wake = 0]
    ELSE [l EXCEPT !.pc = "store", !.result = UrlOf(l.best), !.op = "none"]

\* performOptimizedSearch has returned: smartSearch resumes at line 430
Finish(l) == [l EXCEPT !.pc = "store", !.result = UrlOf(l.best), !.op = "none"]

\* makeRequest up to its first suspension, for search operation op of the
\* current query.  Not configured: the request throws, the search operation
\* returns [], and so do all later ones of this query, after which the loop
\* ends with the current bestResult.  Too early: sleep until the interval
\* has passed.  Otherwise lastRequestTime is set and axios.get is issued.
Enter(l, op, cfg, last, t) ==
    IF ~Configured(cfg)
    THEN [l |-> Finish(l), last |-> last]
    ELSE IF t - last < MinRequestInterval
         THEN [l |-> [l EXCEPT !.pc = "wait", !.op = op,
                               !.wake = t + (MinRequestInterval - (t - last))],
               last |-> last]
         ELSE [l |-> [l EXCEPT !.pc = "req", !.op = op], last |-> t]

\* waitForRequestInterval after its setTimeout: lines 65 and 142
AfterWait(l, t) == [l |-> [l EXCEPT !.pc = "req"], last |-> t]

\* AfterResponse without the test of line 527: the TV-only and movie-only
\* searches follow every combined search
AfterResponseAlwaysSeparate(l, resp, cfg, last, t) ==
    IF l.op = "multi"
    THEN Enter([l EXCEPT !.best = FoldMulti(l.best, MultiResults(resp), l.extractedYear)],
               "tv", cfg, last, t)
    ELSE IF l.op = "tv"
    THEN LET results == TypedResults(resp, "tv")
             f == IF results = <<>> THEN [best |-> l.best, early |-> FALSE]
                  ELSE FoldSeparate(l.best, results, l.extractedYear, "tv")
             l1 == [l EXCEPT !.best = f.best]
         IN  IF f.early THEN [l |-> Finish(l1), last |-> last]
             ELSE Enter(l1, "movie", cfg, last, t)
    ELSE LET results == TypedResults(resp, "movie")
             f == IF results = <<>> THEN [best |-> l.best, early |-> FALSE]
                  ELSE FoldSeparate(l.best, results, l.extractedYear, "movie")
         IN  [l |-> Finish([l EXCEPT !.best = f.best]), last |-> last]

\* the code between the arrival of a response and the next suspension
AfterResponse(l, resp, cfg, last, t) ==
    IF l.op = "multi"
    THEN LET b == FoldMulti(l.best, MultiResults(resp), l.extractedYear)
             l1 == [l EXCEPT !.best = b]
         IN  IF b = NoBest \/ b.score < WeakScore
             THEN Enter(l1, "tv", cfg, last, t)
             ELSE \* line 588 returns, or line 594 breaks
                  [l |-> Finish(l1), last |-> last]
    ELSE IF l.op = "tv"
    THEN LET results == TypedResults(resp, "tv")
             f == IF results = <<>> THEN [best |-> l.best, early |-> FALSE]
                  ELSE FoldSeparate(l.best, results, l.extractedYear, "tv")
             l1 == [l EXCEPT !.best = f.best]
         IN  IF f.early THEN [l |-> Finish(l1), last |-> last]
             ELSE Enter(l1, "movie", cfg, last, t)
    ELSE LET results == TypedResults(resp, "movie")
             f == IF results = <<>> THEN [best |-> l.best, early |-> FALSE]
                  ELSE FoldSeparate(l.best, results, l.extractedYear, "movie")
         IN  \* score >= 75 returns, anything else reaches the break of
             \* line 594
             [l |-> Finish([l EXCEPT !.best = f.best]), last |-> last]

\* the delay in ms before the attempt that follows failed attempt number
\* attempt: Math.min(1000 * Math.pow(2, attempt), 5000)
RetryDelay(attempt) == IF 1000 * 2^attempt < 5000 THEN 1000 * 2^attempt ELSE 5000

\* axios.get of makeRequest has ended with resp.  A failed attempt that is
\* not the last one (attempt < retries) sleeps RetryDelay, in ticks of
\* 2000 ms, and the loop of lines 140-155 tries again; otherwise the search
\* operation gets the data or catches the error and returns [].
OnResponse(l, resp, cfg, last, t) ==
    IF ~resp.ok /\ l.attempt < Retries
    THEN [l |-> [l EXCEPT !.pc = "retry", !.attempt = @ + 1,
                          !.wake = t + (RetryDelay(l.attempt) + 1999) \div 2000],
          last |-> last]
    ELSE AfterResponse([l EXCEPT !.attempt = 0], resp, cfg, last, t)

\* smartSearch that reserves the cache entry of a miss before it searches
smartSearchReserve(title, chineseTitle, cfg, cache, last, t) ==
    IF ~Configured(cfg)
    THEN [l |-> [IdleLocal EXCEPT !.pc = "done", !.title = title,
                                  !.chineseTitle = chineseTitle],
          cache |-> cache, last |-> last, hit |-> FALSE]
    ELSE LET cacheKey == CacheKey(title, chineseTitle)
             cached == getCachedResult(cache, cacheKey, t)
             l0 == [IdleLocal EXCEPT !.title = title, !.chineseTitle = chineseTitle,
                                     !.cacheKey = cacheKey]
         IN  IF cached.found
             THEN [l |-> [l0 EXCEPT !.pc = "done", !.result = cached.result],
                   cache |-> cached.cache, last |-> last, hit |-> TRUE]
             ELSE LET queries == generatePrioritizedQueries(title, chineseTitle)
                      l1 == [l0 EXCEPT
                                !.queries = queries,
                                !.extractedYear =
                                    extractYearFromQuery(title \o <<" ">> \o chineseTitle)]
                      e == IF queries = <<>>
                           THEN [l |-> Finish(l1), last |-> last]
                           ELSE Enter([l1 EXCEPT !.qi = 1], "multi", cfg, last, t)
                  IN  [l |-> e.l,
                       cache |-> setCachedResult(cached.cache, cacheKey, NoUrl, t,
                                                 <<0, title, chineseTitle>>),
                       last |-> e.last, hit |-> FALSE]

\* smartSearch up to its first suspension
smartSearch(title, chineseTitle, cfg, cache, last, t) ==
    IF ~Configured(cfg)
    THEN [l |-> [IdleLocal EXCEPT !.pc = "done", !.title = title,
                                  !.chineseTitle = chineseTitle],
          cache |-> cache, last |-> last, hit |-> FALSE]
    ELSE LET cacheKey == CacheKey(title, chineseTitle)
             cached == getCachedResult(cache, cacheKey, t)
             l0 == [IdleLocal EXCEPT !.title = title, !.chineseTitle = chineseTitle,
                                     !.cacheKey = cacheKey]
         IN  IF cached.found
             THEN [l |-> [l0 EXCEPT !.pc = "done", !.result = cached.result],
                   cache |-> cached.cache, last |-> last, hit |-> TRUE]
             ELSE LET queries == generatePrioritizedQueries(title, chineseTitle)
                      l1 == [l0 EXCEPT
                                !.queries = queries,
                                !.extractedYear =
                                    extractYearFromQuery(title \o <<" ">> \o chineseTitle)]
                      e == IF queries = <<>>
                           THEN [l |-> Finish(l1), last |-> last]
                           ELSE Enter([l1 EXCEPT !.qi = 1], "multi", cfg, last, t)
                  IN  [l |-> e.l, cache |-> cached.cache, last |-> e.last,
                       hit |-> FALSE]

\* StoreResult that keeps an entry already written under the key
StoreResultFirstWins(l, cache, t, owner) ==
    [l |-> [l EXCEPT !.pc = "done"],
     cache |-> IF KeyIndex(cache, l.cacheKey) # 0 THEN cache
               ELSE setCachedResult(cache, l.cacheKey, l.result, t, owner)]

\* lines 430-438: cache the result and return it
StoreResult(l, cache, t, owner) ==
    [l |-> [l EXCEPT !.pc = "done"],
     cache |-> setCachedResult(cache, l.cacheKey, l.result, t, owner)]

\* ---------------------------------------------------------------- observer
NoExpect == [set |-> FALSE, r |-> NoUrl]
Expect(r) == [set |-> TRUE, r |-> r]
NoWatch == [pair |-> <<>>, result |-> NoUrl, time |-> -1, ts |-> -1]

\* what an observer records of the current call of a caller
IdleObs ==
    [cfg |-> FALSE,         \* the client was configured when the call started
     hit |-> FALSE,         \* the call returned from the cache
     hitOwner |-> <<>>,     \* who wrote the entry it returned
     expired |-> FALSE,     \* the call found an expired entry under its key
     ts |-> -1,             \* timestamp of the entry it returned or wrote
     doneAt |-> -1,         \* when the call completed
     sent |-> 0,            \* outbound requests started during the call
     direct |-> FALSE,      \* one of them was sent without a proxy
     writes |-> 0,          \* entries the call has put into the cache
     allFailed |-> TRUE,    \* no request of the call has succeeded
     failures |-> 0,        \* HTTP attempts of the call that failed
     saw25 |-> FALSE,       \* a TV or movie candidate scored >= 25
     sawOver |-> FALSE,     \* a candidate passed the test of its stage
     both25 |-> FALSE,      \* combined search: a TV and a movie, both >= 25
     both |-> FALSE,        \* combined search: a TV and a movie, both > 25
     expect |-> NoExpect,   \* result of the watched call of the same pair
     expectKept |-> NoExpect]   \* the same, when its entry is still valid

Pair(l) == <<l.title, l.chineseTitle>>

Entries(cache) == {cache[i] : i \in 1..Len(cache)}

\* the entry of the cache under a key
EntryOf(cache, key) ==
    IF KeyIndex(cache, key) = 0 THEN NoEntry ELSE cache[KeyIndex(cache, key)]

\* score of a result after the year bonus
Scored(result, year) == result.score + Bonus(result, year)

\* the results of a response that the stage op scores
StageResults(op, resp) ==
    IF op = "multi" THEN MultiResults(resp) ELSE TypedResults(resp, op)

SawAtLeast(op, resp, year, n) ==
    \E i \in 1..Len(StageResults(op, resp)) :
        /\ StageResults(op, resp)[i].media_type \in {"tv", "movie"}
        /\ Scored(StageResults(op, resp)[i], year) >= n

BothAtLeast(op, resp, year, n) ==
    /\ op = "multi"
    /\ \E i \in 1..Len(MultiResults(resp)) :
        /\ MultiResults(resp)[i].media_type = "tv"
        /\ Scored(MultiResults(resp)[i], year) >= n
    /\ \E i \in 1..Len(MultiResults(resp)) :
        /\ MultiResults(resp)[i].media_type = "movie"
        /\ Scored(MultiResults(resp)[i], year) >= n

\* the stage's own acceptance test: combined, any TV or movie result above
\* 25; separate, the result ranked first by relevance above 30 with bonus
SawOver(op, resp, year) ==
    LET rs == StageResults(op, resp)
    IN  IF op = "multi" THEN SawAtLeast(op, resp, year, LowScore + 1)
        ELSE /\ rs # <<>>
             /\ \E i \in 1..Len(rs) :
                    /\ \A j \in 1..Len(rs) :
                          rs[j].score < rs[i].score \/ (rs[j].score = rs[i].score /\ j >= i)
                    /\ Scored(rs[i], year) > SeparateScore

\* ------------------------------------------------------- relevance score
\* a result as calculateRelevanceScore reads it: title || name, vote_average,
\* the year of release_date || first_air_date (0: no date), popularity
Result(title, vote, year, popularity) ==
    [title |-> title, vote_average |-> vote, year |-> year, popularity |-> popularity]

\* a JavaScript number that is an integer, and NaN
Number(n) == [nan |-> FALSE, value |-> n]
NaN == [nan |-> TRUE, value |-> 0]

\* String.prototype.toLowerCase over the letters used here
toLowerCase(s) ==
    [i \in 1..Len(s) |-> IF s[i] = "A" THEN "a" ELSE IF s[i] = "B" THEN "b" ELSE s[i]]

\* s.split(' ').filter(word => word.length > n); cur is the word being read
RECURSIVE WordsLongerThan(_, _, _)
WordsLongerThan(s, n, cur) ==
    IF s = <<>> THEN (IF Len(cur) > n THEN <<cur>> ELSE <<>>)
    ELSE IF Head(s) = " "
         THEN (IF Len(cur) > n THEN <<cur>> ELSE <<>>) \o WordsLongerThan(Tail(s), n, <<>>)
         ELSE WordsLongerThan(Tail(s), n, Append(cur, Head(s)))

\* lines 294-305: the first title word that a query word equals, contains
\* or is contained in (0: none)
FirstMatch(queryWord, titleWords) ==
    LET hit(j) == \/ queryWord = titleWords[j]
                  \/ Includes(titleWords[j], queryWord)
                  \/ Includes(queryWord, titleWords[j])
    IN  IF \E j \in 1..Len(titleWords) : hit(j)
        THEN CHOOSE j \in 1..Len(titleWords) : hit(j) /\ \A k \in 1..(j - 1) : ~hit(k)
        ELSE 0

Min(a, b) == IF a < b THEN a ELSE b

\* lines 359-368: row i of the matrix from row i - 1 (prev); row holds
\* matrix[i][0 .. Len(row) - 1], c is str1[i - 1]
RECURSIVE MatrixRow(_, _, _, _)
MatrixRow(prev, c, str2, row) ==
    IF Len(row) = Len(str2) + 1 THEN row
    ELSE LET j == Len(row)
             cost == IF c = str2[j] THEN 0 ELSE 1
         IN  MatrixRow(prev, c, str2,
                       Append(row, Min(Min(prev[j + 1] + 1, row[j] + 1), prev[j] + cost)))

\* row i of the matrix, as the sequence matrix[i][0 .. len2]
RECURSIVE Matrix(_, _, _)
Matrix(str1, str2, i) ==
    IF i = 0 THEN [j \in 1..(Len(str2) + 1) |-> j - 1]
    ELSE MatrixRow(Matrix(str1, str2, i - 1), str1[i], str2, <<i>>)

\* calculateStringSimilarity, as the fraction num / den
calculateStringSimilarity(str1, str2) ==
    LET len1 == Len(str1)
        len2 == Len(str2)
        maxLen == IF len1 > len2 THEN len1 ELSE len2
    IN  IF len1 = 0 THEN [num |-> IF len2 = 0 THEN 1 ELSE 0, den |-> 1]
        ELSE IF len2 = 0 THEN [num |-> 0, den |-> 1]
        ELSE [num |-> maxLen - Matrix(str1, str2, len1)[len2 + 1], den |-> maxLen]

\* calculateRelevanceScore.  The sum is kept as an exact fraction until
\* Math.round; a division of 0 by 0 makes it NaN.
calculateRelevanceScore(result, originalQuery) ==
    LET title == toLowerCase(result.title)
        query == toLowerCase(originalQuery)
        queryWords == WordsLongerThan(query, 1, <<>>)
        titleWords == WordsLongerThan(title, 1, <<>>)
        matched == {i \in 1..Len(queryWords) : FirstMatch(queryWords[i], titleWords) # 0}
        matchingWords == Cardinality(matched)
        exactMatches ==
            Cardinality({i \in matched :
                            queryWords[i] = titleWords[FirstMatch(queryWords[i], titleWords)]})
        words == Len(queryWords)
        \* the first addend, as match.num / match.den
        match == IF title = query THEN [num |-> 100, den |-> 1]
                 ELSE IF Includes(title, query) THEN [num |-> 80, den |-> 1]
                 ELSE IF Includes(query, title) THEN [num |-> 60, den |-> 1]
                 ELSE [num |-> exactMatches * 50 + matchingWords * 30
                                + (IF matchingWords * 10 > 7 * words THEN 20 * words ELSE 0),
                       den |-> words]
        similarity == calculateStringSimilarity(title, query)
        vote == IF result.vote_average > 8 THEN 15
                ELSE IF result.vote_average > 7 THEN 10
                ELSE IF result.vote_average > 5 THEN 5 ELSE 0
        recent == IF result.year = 0 THEN 0
                  ELSE IF result.year >= CurrentYear - 1 THEN 10
                  ELSE IF result.year >= CurrentYear - 3 THEN 5
                  ELSE IF result.year >= CurrentYear - 5 THEN 2 ELSE 0
        \* Math.min(popularity / 100, 5), in hundredths
        popular == IF result.vote_average > 0 /\ result.popularity > 10
                   THEN Min(result.popularity, 500) ELSE 0
        den == match.den * similarity.den * 100
        num == match.num * similarity.den * 100
                + similarity.num * 15 * match.den * 100
                + (vote + recent) * match.den * similarity.den * 100
                + popular * match.den * similarity.den
    IN  IF match.den = 0 THEN NaN
        ELSE Number((2 * num + den) \div (2 * den))

\* ------------------------------------------------------ title extraction
\* (src/unnamed/part_003, class RSSService).  A character of a feed item is
\* written as itself when it is printable ASCII, "LF" for the line feed and
\* "uXXXX" for any other UTF-16 code unit.  The items of the model are
\* written with these characters only:
Latin == {"T", "h", "e", "B", "a", "r", "P", "S", "E"}
Digit == {"0", "1", "2", "3"}
\* characters of the range 4e00-9fff: those of the titles, labels and values
Han == { "u9752", "u86D9", "u7247", "u540D", "u8BD1", "u718A", "u5BB6", "u9910",
         "u5385", "u5E74", "u4EE3", "u7C7B", "u578B", "u5267", "u60C5", "u559C" }
\* . and [^\n\r]: every character but the line feed; u25CE is the label mark
Dot == Latin \cup Digit \cup Han \cup {"[", "]", "/", "u25CE", " "}
Chars == Dot \cup {"LF"}                                   \* every character
Word == Chars \ (White \cup {"["})                         \* [^\s\-\[\(]

\* a regular expression is a sequence of atoms, matched with backtracking:
\* a character class with a quantifier {min,max} (max -1: unbounded), greedy
\* or lazy, inside or outside capture group 1; an alternation of sequences;
\* the assertion $
Atom(set, min, max, lazy, cap) ==
    [kind |-> "set", set |-> set, min |-> min, max |-> max, lazy |-> lazy,
     cap |-> cap, alts |-> <<>>]
Lit(c) == Atom({c}, 1, 1, FALSE, FALSE)
Some(set) == Atom(set, 1, -1, FALSE, FALSE)
Alt(alts) ==
    [kind |-> "alt", set |-> {}, min |-> 0, max |-> 0, lazy |-> FALSE,
     cap |-> FALSE, alts |-> alts]
EndOfInput ==
    [kind |-> "end", set |-> {}, min |-> 0, max |-> 0, lazy |-> FALSE,
     cap |-> FALSE, alts |-> <<>>]

NoMatch == [ok |-> FALSE, index |-> 0, end |-> 0, group |-> <<>>]

\* the length of the run of characters of set at position pos of s, at
\* most max
RECURSIVE Run(_, _, _, _)
Run(s, pos, set, max) ==
    IF max = 0 \/ pos > Len(s) \/ s[pos] \notin set THEN 0
    ELSE 1 + Run(s, pos + 1, set, max - 1)

\* the element of a set of one element
Only(S) == CHOOSE x \in S : TRUE

\* the atoms matched at position pos of s, by backtracking in the order of
\* the engine: end is the position after the match, group the text of
\* capture group 1.  MatchAlt tries the alternatives from the i-th on;
\* MatchCount takes the rest of the match after each number of repetitions
\* of atom a and keeps the first in the order of the engine (the fewest if a
\* is lazy, the most if not).
RECURSIVE MatchAt(_, _, _), MatchAlt(_, _, _, _, _), MatchCount(_, _, _, _)
MatchAlt(s, pos, alts, i, rest) ==
    IF i > Len(alts) THEN NoMatch
    ELSE Only({ IF r.ok THEN r ELSE MatchAlt(s, pos, alts, i + 1, rest) :
                r \in {MatchAt(s, pos, alts[i] \o rest)} })

MatchCount(s, pos, a, rest) ==
    Only({ IF \A n \in DOMAIN r : ~r[n].ok THEN NoMatch
           ELSE LET n == CHOOSE k \in DOMAIN r :
                            /\ r[k].ok
                            /\ \A j \in DOMAIN r :
                                 r[j].ok => IF a.lazy THEN k <= j ELSE k >= j
                IN  [ok |-> TRUE, index |-> pos, end |-> r[n].end,
                     group |-> (IF a.cap THEN SubSeq(s, pos, pos + n - 1) ELSE <<>>)
                               \o r[n].group] :
           r \in {[n \in a.min..Run(s, pos, a.set, a.max) |-> MatchAt(s, pos + n, rest)]} })

MatchAt(s, pos, atoms) ==
    IF atoms = <<>> THEN [ok |-> TRUE, index |-> pos, end |-> pos, group |-> <<>>]
    ELSE IF Head(atoms).kind = "end"
    THEN (IF pos = Len(s) + 1 THEN MatchAt(s, pos, Tail(atoms)) ELSE NoMatch)
    ELSE IF Head(atoms).kind = "alt"
    THEN MatchAlt(s, pos, Head(atoms).alts, 1, Tail(atoms))
    ELSE MatchCount(s, pos, Head(atoms), Tail(atoms))

\* RegExp.prototype.exec from position from on: the leftmost match; re.start
\* tells a pattern that begins with ^
Exec(re, s, from) ==
    Only({ IF \A p \in DOMAIN m : ~m[p].ok THEN NoMatch
           ELSE m[CHOOSE p \in DOMAIN m : m[p].ok /\ \A q \in DOMAIN m : m[q].ok => p <= q] :
           m \in {[p \in from..(IF re.start THEN from ELSE Len(s) + 1) |->
                     MatchAt(s, p, re.atoms)]} })

\* the successive matches of a pattern with the g flag
RECURSIVE MatchAll(_, _, _)
MatchAll(re, s, from) ==
    Only({ IF ~m.ok THEN <<>>
           ELSE <<m>> \o MatchAll(re, s, IF m.end = m.index THEN m.end + 1 ELSE m.end) :
           m \in {Exec(re, s, from)} })

\* s.replace(re, '') for a pattern without the g flag
Remove(re, s) ==
    LET m == Exec(re, s, 1)
    IN  IF m.ok THEN SubSeq(s, 1, m.index - 1) \o SubSeq(s, m.end, Len(s)) ELSE s

\* string | null
None == [found |-> FALSE, text |-> <<>>]
Found(text) == [found |-> TRUE, text |-> text]

\* description.trim().length below which extractChineseTitle reads the title
ShortDescriptionLength == 50

\* pieces of the patterns: (.+?), S\d+, \d{4}, \d{3,4}p (with the i flag)
LazyName == Atom(Dot, 1, -1, TRUE, TRUE)
Season == <<Lit("S"), Some(Digit)>>
Year4 == <<Atom(Digit, 4, 4, FALSE, FALSE)>>
Resolution == <<Atom(Digit, 3, 4, FALSE, FALSE), Lit("P")>>

\* lines 783-796.  The patterns for WEB|BluRay|BDRip|DVDRip|HDTV|CR and for
\* H\.\d+ need characters that no item of the model contains.
qingwaPatterns ==
    << [start |-> TRUE,
        atoms |-> <<LazyName, Some(White)>> \o Season
                    \o <<Atom({"E", "e"}, 1, 1, FALSE, FALSE), Some(Digit)>>],
       [start |-> TRUE, atoms |-> <<LazyName, Some(White)>> \o Season],
       [start |-> TRUE, atoms |-> <<LazyName, Some(White)>> \o Year4],
       [start |-> TRUE, atoms |-> <<LazyName, Some(White)>> \o Resolution] >>

\* lines 477-498.  The patterns for Season, for the season written in
\* Chinese, for H\., for WEB|..., and for a trailing "- Group" need
\* characters that no item of the model contains.  The ninth pattern,
\* ^(word(?:\s+word)*?)(?=\s+marker), captures the shortest run of whole
\* words that the marker follows.
TV_SHOW_PATTERNS ==
    << [start |-> TRUE,
        atoms |-> <<Atom(Chars \ {"S"}, 1, -1, TRUE, TRUE), Some(White)>> \o Season],
       [start |-> TRUE, atoms |-> <<LazyName, Some(White)>> \o Resolution],
       [start |-> TRUE, atoms |-> <<LazyName, Some(White)>> \o Year4],
       [start |-> TRUE,
        atoms |-> <<Atom(Word, 1, 1, FALSE, TRUE),
                    Atom(Word \cup White, 0, -1, TRUE, TRUE),
                    Some(White), Alt(<<Resolution, Season, Year4>>)>>],
       [start |-> TRUE, atoms |-> <<Atom(Word, 1, -1, FALSE, TRUE)>>] >>

\* the loops without the length test: any group is returned
RECURSIVE FirstGroupAny(_, _, _, _)
FirstGroupAny(patterns, s, k, min) ==
    IF k > Len(patterns) THEN None
    ELSE LET m == Exec(patterns[k], s, 1)
         IN  IF m.ok /\ m.group # <<>> THEN Found(Trim(m.group))
             ELSE FirstGroupAny(patterns, s, k + 1, min)

\* the loops of lines 799-812, 815-828 and 952-965: the trimmed group of the
\* first pattern that matches with a group longer than min characters
RECURSIVE FirstGroup(_, _, _, _)
FirstGroup(patterns, s, k, min) ==
    IF k > Len(patterns) THEN None
    ELSE LET m == Exec(patterns[k], s, 1)
         IN  IF m.ok /\ m.group # <<>> /\ Len(Trim(m.group)) > min
             THEN Found(Trim(m.group))
             ELSE FirstGroup(patterns, s, k + 1, min)

extractTVShowTitle(title) ==
    IF title = <<>> THEN None
    ELSE LET \* /\[.*?\].*$/
             bracketToEnd ==
                [start |-> FALSE,
                 atoms |-> <<Lit("["), Atom(Dot, 0, -1, TRUE, FALSE), Lit("]"),
                             Atom(Dot, 0, -1, FALSE, FALSE), EndOfInput>>]
             cleanTitle == Trim(Remove(bracketToEnd, Trim(title)))
             qingwa == FirstGroup(qingwaPatterns, cleanTitle, 1, 2)
             general == FirstGroup(TV_SHOW_PATTERNS, cleanTitle, 1, 2)
             \* cleanTitle.split(/\s+/)
             words == MatchAll([start |-> FALSE,
                                atoms |-> <<Atom(Chars \ White, 1, -1, FALSE, TRUE)>>],
                               cleanTitle, 1)
             first == IF words = <<>> THEN <<>> ELSE words[1].group
             result == IF Len(first) <= 2 /\ Len(words) > 1
                       THEN first \o <<" ">> \o words[2].group
                       ELSE first
         IN  IF qingwa.found THEN qingwa
             ELSE IF general.found THEN general
             ELSE IF Len(result) > 2 THEN Found(result)
             ELSE None

\* lines 736-750.  The patterns for the labels written with other
\* characters and for Title: and Name: need characters that no item of the
\* model contains.  label[\s]*name[\s]*([^\n\r]+) for a two-character label:
Labelled(a, b, value) ==
    [start |-> FALSE,
     atoms |-> <<Lit("u25CE"), Lit(a), Atom(White, 0, -1, FALSE, FALSE), Lit(b),
                 Atom(White, 0, -1, FALSE, FALSE)>> \o value]

extractTitleFromDescription(description) ==
    IF description = <<>> THEN None
    ELSE LET \* description.match(pattern)[1] of a pattern with the g flag:
             \* the text of the second match
             second(re) ==
                LET all == MatchAll(re, description, 1)
                IN  IF Len(all) >= 2
                    THEN SubSeq(description, all[2].index, all[2].end - 1)
                    ELSE <<>>
             \* /\[([A-Za-z][A-Za-z0-9\s\-\.:']+?)(?:\s+S\d+|\s+\d{4}|\s+\d{3,4}p|...)/i
             bracketed ==
                [start |-> FALSE,
                 atoms |-> <<Lit("["), Atom(Latin, 1, 1, FALSE, TRUE),
                             Atom(Latin \cup Digit \cup White, 1, -1, TRUE, TRUE),
                             Some(White), Alt(<<Season, Year4, Resolution>>)>>]
             \* /\s*\[[^\]]*\]\s*$/
             trailingBracket ==
                [start |-> FALSE,
                 atoms |-> <<Atom(White, 0, -1, FALSE, FALSE), Lit("["),
                             Atom(Chars \ {"]"}, 0, -1, FALSE, FALSE), Lit("]"),
                             Atom(White, 0, -1, FALSE, FALSE), EndOfInput>>]
             extracted(match1) == Remove(trailingBracket, Trim(match1))
             accepted(match1) ==
                /\ match1 # <<>>
                /\ Len(extracted(match1)) > 2
                /\ \A i \in 1..Len(extracted(match1)) : extracted(match1)[i] # "u25CE"
             name == <<Atom(Dot, 1, -1, FALSE, TRUE)>>
             m1 == second(Labelled("u7247", "u540D", name))
             m3 == second(Labelled("u8BD1", "u540D", name))
             m7 == Exec(bracketed, description, 1).group
         IN  IF accepted(m1) THEN Found(extracted(m1))
             ELSE IF accepted(m3) THEN Found(extracted(m3))
             ELSE IF accepted(m7) THEN Found(extracted(m7))
             ELSE None

extractTVShowTitleFromBoth(title, description) ==
    IF extractTitleFromDescription(description).found
    THEN extractTitleFromDescription(description)
    ELSE extractTVShowTitle(title)

\* [4e00-9fff][4e00-9fff\s...]+ : a localized name of two characters or more
\* (the middle dot of the class is a character that no item of the model
\* contains); extra are the other characters the class admits
ChineseName(extra, lazy) ==
    <<Atom(Han, 1, 1, FALSE, TRUE), Atom(Han \cup White \cup extra, 1, -1, lazy, TRUE)>>

\* lines 931-950.  The patterns for parentheses, for lenticular brackets and
\* for the vertical bar need characters that no item of the model contains.
titleChinesePatterns ==
    << [start |-> TRUE,
        atoms |-> ChineseName({}, TRUE) \o <<Some(White), Atom(Latin, 1, 1, FALSE, FALSE)>>],
       [start |-> FALSE,
        atoms |-> <<Atom(Latin, 1, 1, FALSE, FALSE), Some(Latin \cup White), Some(White)>>
                  \o ChineseName({}, FALSE)],
       [start |-> FALSE,
        atoms |-> <<Lit("[")>> \o ChineseName({}, FALSE) \o <<Lit("]")>>],
       [start |-> FALSE,
        atoms |-> <<Atom(Latin, 1, 1, FALSE, FALSE), Some(Latin \cup White),
                    Atom(White, 0, -1, FALSE, FALSE), Lit("/"),
                    Atom(White, 0, -1, FALSE, FALSE)>> \o ChineseName({}, FALSE)],
       [start |-> TRUE, atoms |-> ChineseName({}, FALSE) \o <<EndOfInput>>],
       [start |-> TRUE,
        atoms |-> ChineseName({}, TRUE)
                  \o <<Some(White), Alt(<<Season, Year4, Resolution>>)>>] >>

extractChineseTitleFromTitle(title) ==
    IF title = <<>> THEN None ELSE FirstGroup(titleChinesePatterns, title, 1, 1)

\* lines 883-901.  The patterns for the other labels, for parentheses, for
\* lenticular brackets and for the broadcast season need characters that no
\* item of the model contains.
chinesePatterns ==
    << Labelled("u8BD1", "u540D", ChineseName({"/"}, FALSE)),
       Labelled("u7247", "u540D", ChineseName({}, FALSE)),
       [start |-> FALSE,
        atoms |-> <<Lit("["), Atom(Han, 1, 1, FALSE, TRUE),
                    Atom(Han \cup White, 0, -1, TRUE, TRUE),
                    Alt(<< <<Some(White), Atom(Latin, 1, 1, FALSE, FALSE)>>,
                           <<EndOfInput>> >>)>>],
       [start |-> FALSE,
        atoms |-> ChineseName({}, FALSE)
                  \o <<Atom(White, 0, -1, FALSE, FALSE), Lit("/"),
                       Atom(White, 0, -1, FALSE, FALSE), Some(Han)>>] >>

extractChineseTitle(title, description) ==
    LET isAudiencesMe ==
            description = <<>> \/ Len(Trim(description)) < ShortDescriptionLength
        \* /\/.*$/
        slashToEnd == [start |-> FALSE,
                       atoms |-> <<Lit("/"), Atom(Dot, 0, -1, FALSE, FALSE), EndOfInput>>]
        chineseTitle(match) == Trim(Remove(slashToEnd, Trim(match.group)))
        matches == MatchAll(chinesePatterns[1], description, 1)
                   \o MatchAll(chinesePatterns[2], description, 1)
                   \o MatchAll(chinesePatterns[3], description, 1)
                   \o MatchAll(chinesePatterns[4], description, 1)
        returned == SelectSeq(matches,
                        LAMBDA match : Len(match.group) > 1 /\ Len(chineseTitle(match)) > 1)
    IN  IF isAudiencesMe THEN extractChineseTitleFromTitle(title)
        ELSE IF returned = <<>> THEN None
        ELSE Found(chineseTitle(returned[1]))

\* ------------------------------------------------- the server's timers
\* the sources that are ever created
MaxSources == 2

\* const { name, url, updateInterval = 30 } = req.body
DefaultInterval == 30

\* lines 12-14 and loadData: the sources and the switch of the data file,
\* no timer yet.  refreshTimers is the Map as a set of entries; intervals
\* are the setInterval calls not cleared yet, each with the id its callback
\* holds; created counts the ids handed out, started tells that the
\* setTimeout of line 147 has fired.
loadData(rssSources, autoRefreshEnabled) ==
    [rssSourcesData |-> rssSources, autoRefreshEnabled |-> autoRefreshEnabled,
     refreshTimers |-> {}, intervals |-> {},
     created |-> Len(rssSources), started |-> FALSE]

startRSSTimer(s, source) ==
    IF ~s.autoRefreshEnabled \/ source.updateInterval = 0 THEN s
    ELSE LET existing == {e \in s.refreshTimers : e.id = source.id}
             kept == s.intervals \ existing
             timer == CHOOSE n \in 1..(Cardinality(kept) + 1) :
                        /\ \A i \in kept : i.timer # n
                        /\ \A m \in 1..(n - 1) : \E i \in kept : i.timer = m
             entry == [id |-> source.id, timer |-> timer]
         IN  [s EXCEPT !.intervals = kept \cup {entry},
                       !.refreshTimers = (@ \ existing) \cup {entry}]

stopRSSTimer(s, sourceId) ==
    LET existing == {e \in s.refreshTimers : e.id = sourceId}
    IN  [s EXCEPT !.intervals = @ \ existing, !.refreshTimers = @ \ existing]

\* startAllRSSTimers over the first n sources (n = rssSourcesData.length)
RECURSIVE startAllRSSTimers(_, _)
startAllRSSTimers(s, n) ==
    IF ~s.autoRefreshEnabled \/ n = 0 THEN s
    ELSE LET before == startAllRSSTimers(s, n - 1)
         IN  IF s.rssSourcesData[n].updateInterval > 0
             THEN startRSSTimer(before, s.rssSourcesData[n])
             ELSE before

stopAllRSSTimers(s) ==
    [s EXCEPT !.intervals = @ \ s.refreshTimers, !.refreshTimers = {}]

\* ------------------------------------------------- the store of the page
\* the refreshes that are ever started
MaxRefreshes == 3

\* lines 107-110 of the store: no show, no notified title; no refresh is
\* running (a frame per source: the tvShows it read at its start, the
\* items of its feed still to extract, the showsMap of extractTVShows, its
\* reallyNewShows); sent lists the titles of the notifications sent
EmptyStore ==
    [tvShows |-> <<>>, lastNotifiedShows |-> {}, sent |-> <<>>, refreshes |-> 0,
     frames |-> [p \in 1..MaxSources |->
                    [pc |-> "idle", tvShows |-> <<>>, items |-> <<>>,
                     showsMap |-> <<>>, reallyNewShows |-> <<>>]]]

\* addTVShow: a known title counts once more, a new title is appended
addTVShow(tvShows, show) ==
    IF \E i \in 1..Len(tvShows) : tvShows[i].title = show
    THEN LET existingShowIndex == CHOOSE i \in 1..Len(tvShows) : tvShows[i].title = show
         IN  [tvShows EXCEPT ![existingShowIndex].count = @ + 1]
    ELSE Append(tvShows, [title |-> show, count |-> 1])

\* newShows.forEach(show => addTVShow(show))
RECURSIVE forEachAddTVShow(_, _)
forEachAddTVShow(tvShows, newShows) ==
    IF newShows = <<>> THEN tvShows
    ELSE forEachAddTVShow(addTVShow(tvShows, Head(newShows)), Tail(newShows))

\* ----------------------------------------------------------------- actions
\* the service as constructed
Constructed ==
    /\ config = [enabled |-> FALSE, apiKey |-> "", proxy |-> FALSE]
    /\ searchCache = <<>>
    /\ lastRequestTime = 0
    /\ now = MinRequestInterval
    /\ locals = [p \in Procs |-> IdleLocal]
    /\ obs = [p \in Procs |-> IdleObs]
    /\ lastStart = -1
    /\ watch = NoWatch

\* no stage is being scored, no item is being processed
NoScoring == [pc |-> "none", query |-> <<>>, extractedYear |-> NoYear, items |-> <<>>]
NoItem == [pc |-> "none", title |-> <<>>, description |-> <<>>,
           extractedTitle |-> None, chineseTitle |-> None]

Init ==
    /\ Constructed
    /\ server = loadData(<<>>, TRUE)
    /\ app = EmptyStore
    /\ scoredResults = NoScoring
    /\ item = NoItem

\* setConfig (Settings page, TMDBDebug page, extractTVShows)
SetConfig(c) ==
    /\ config # c
    /\ config' = c
    /\ UNCHANGED <<searchCache, lastRequestTime, now, locals, obs, lastStart, watch, pure>>

\* the clock advances by 1000 ms
Tick ==
    /\ now < MaxTime
    /\ now' = now + 1
    /\ UNCHANGED <<config, searchCache, lastRequestTime, locals, obs, lastStart, watch, pure>>

\* what the observer notes when a step of caller p started a request
NoteStart(p, e) ==
    lastStart' = IF e.l.pc = "req" THEN now ELSE lastStart

NewEntries(cache) ==
    IF Entries(cache) \subseteq Entries(searchCache) THEN 0 ELSE 1

\* caller p calls smartSearch(title, chineseTitle)
Call(p, title, chineseTitle) ==
    /\ locals[p].pc = "idle"
    /\ \E e \in {smartSearch(title, chineseTitle, config, searchCache,
                            lastRequestTime, now)} :
       LET key == CacheKey(title, chineseTitle)
           old == EntryOf(searchCache, key)
           same == /\ watch # NoWatch
                   /\ watch.pair = <<title, chineseTitle>>
                   /\ now - watch.time < CacheExpireTicks
                   /\ Configured(config)
           kept == /\ same
                   /\ old # NoEntry
                   /\ old.timestamp = watch.ts
                   /\ old.result = watch.result
                   /\ now - old.timestamp <= CacheExpireTicks
       IN  /\ locals' = [locals EXCEPT ![p] = e.l]
           /\ searchCache' = e.cache
           /\ lastRequestTime' = e.last
           /\ NoteStart(p, e)
           /\ obs' = [obs EXCEPT ![p] =
                [IdleObs EXCEPT
                    !.cfg = Configured(config),
                    !.hit = e.hit,
                    !.hitOwner = IF e.hit THEN old.owner ELSE <<>>,
                    !.expired = Configured(config) /\ old # NoEntry /\ ~e.hit,
                    !.ts = IF e.hit THEN old.timestamp ELSE -1,
                    !.doneAt = IF e.l.pc = "done" THEN now ELSE -1,
                    !.sent = IF e.l.pc = "req" THEN 1 ELSE 0,
                    !.direct = e.l.pc = "req" /\ ~config.proxy,
                    !.writes = NewEntries(e.cache),
                    !.expect = IF same THEN Expect(watch.result) ELSE NoExpect,
                    !.expectKept = IF kept THEN Expect(watch.result) ELSE NoExpect]]
    /\ UNCHANGED <<config, now, watch, pure>>

\* the setTimeout of waitForRequestInterval, or the one of the retry loop,
\* fires for caller p
Wake(p) ==
    /\ locals[p].pc \in {"wait", "retry"}
    /\ now >= locals[p].wake
    /\ \E e \in {IF locals[p].pc = "wait" THEN AfterWait(locals[p], now)
                  ELSE [l |-> [locals[p] EXCEPT !.pc = "req"],
                        last |-> lastRequestTime]} :
           /\ locals' = [locals EXCEPT ![p] = e.l]
           /\ lastRequestTime' = e.last
           /\ NoteStart(p, e)
           /\ obs' = [obs EXCEPT ![p].sent = @ + 1,
                                 ![p].direct = @ \/ ~config.proxy]
    /\ UNCHANGED <<config, searchCache, now, watch, pure>>

\* the request of caller p ends with resp
Respond(p, resp) ==
    /\ locals[p].pc = "req"
    /\ \E e \in {OnResponse(locals[p], resp, config, lastRequestTime, now)} :
       LET l == locals[p]
           y == l.extractedYear
       IN  /\ locals' = [locals EXCEPT ![p] = e.l]
           /\ lastRequestTime' = e.last
           /\ NoteStart(p, e)
           /\ obs' = [obs EXCEPT
                ![p].sent = @ + (IF e.l.pc = "req" THEN 1 ELSE 0),
                ![p].direct = @ \/ (e.l.pc = "req" /\ ~config.proxy),
                ![p].allFailed = @ /\ ~resp.ok,
                ![p].failures = @ + (IF resp.ok THEN 0 ELSE 1),
                ![p].saw25 = @ \/ SawAtLeast(l.op, resp, y, LowScore),
                ![p].sawOver = @ \/ SawOver(l.op, resp, y),
                ![p].both25 = @ \/ BothAtLeast(l.op, resp, y, LowScore),
                ![p].both = @ \/ BothAtLeast(l.op, resp, y, LowScore + 1)]
    /\ UNCHANGED <<config, searchCache, now, watch, pure>>

\* smartSearch of caller p resumes after performOptimizedSearch
Store(p) ==
    /\ locals[p].pc = "store"
    /\ \E e \in {StoreResult(locals[p], searchCache, now, <<p>> \o Pair(locals[p]))} :
           /\ locals' = [locals EXCEPT ![p] = e.l]
           /\ searchCache' = e.cache
           /\ obs' = [obs EXCEPT ![p].writes = @ + NewEntries(e.cache),
                                 ![p].ts = now,
                                 ![p].doneAt = now]
    /\ UNCHANGED <<config, lastRequestTime, now, lastStart, watch, pure>>

\* the caller of p receives the result; the observer may remember the call
Return(p, w) ==
    /\ locals[p].pc = "done"
    /\ locals' = [locals EXCEPT ![p] = IdleLocal]
    /\ obs' = [obs EXCEPT ![p] = IdleObs]
    /\ watch' = IF w /\ obs[p].cfg
                THEN [pair |-> Pair(locals[p]), result |-> locals[p].result,
                      time |-> obs[p].doneAt, ts |-> obs[p].ts]
                ELSE watch
    /\ UNCHANGED <<config, searchCache, lastRequestTime, now, lastStart, pure>>

\* the steps of the callers P, for calls drawn from I, responses from R,
\* configurations from C, and an observer that remembers calls when W allows
NextOf(P, I, R, C, W) ==
    \/ \E c \in C : SetConfig(c)
    \/ Tick
    \/ \E p \in P : \E in \in I : Call(p, in[1], in[2])
    \/ \E p \in P : Wake(p)
    \/ \E p \in P : \E resp \in R : Respond(p, resp)
    \/ \E p \in P : Store(p)
    \/ \E p \in P : \E w \in W : Return(p, w)

Strong == [ok |-> TRUE, results |-> <<Cand(3, "tv", 80, 0)>>]

\* concurrent callers sharing the service
Spec ==
    Init /\ [][NextOf(Procs, {EmptyTitle, DashTitle}, {Fail, Strong}, {Enabled},
                      {FALSE})]_vars

\* one caller, every kind of title and configuration
SpecSeq ==
    Init /\ [][NextOf({1}, {EmptyTitle, BlankTitle, ShortTitle, DashTitle},
                      {Fail, Strong},
                      {Enabled, Disabled,
                       [enabled |-> TRUE, apiKey |-> "", proxy |-> FALSE]},
                      {FALSE})]_vars
\* the same, when time passes, timers fire, every request is answered and the
\* code after an await runs
SpecSeqLive ==
    /\ SpecSeq
    /\ WF_vars(Tick)
    /\ WF_vars(Wake(1))
    /\ WF_vars(\E resp \in {Fail, Strong} : Respond(1, resp))
    /\ WF_vars(Store(1))

\* one caller, with an observer that remembers completed calls
SpecIdem ==
    Init /\ [][NextOf({1}, {BlankTitle, ShortTitle, DashTitle}, {Fail, Strong},
                      {Enabled, Disabled}, BOOLEAN)]_vars

\* one caller, every response of the catalog
SpecScore ==
    Init /\ [][NextOf({1}, {DashTitle, YearTitle}, Responses, {Enabled, Disabled},
                      {FALSE})]_vars
\* one caller, TMDB settings with the proxy enabled: the debug page passes
\* the proxy of the settings to setConfig (TMDBDebug.tsx, lines 75-79),
\* extractTVShows does not
SpecProxy ==
    Init /\ [][NextOf({1}, {DashTitle}, {Fail, Strong},
                      {Enabled, [Enabled EXCEPT !.proxy = TRUE]}, {FALSE})]_vars

\* ---------------------------------------------------- scoring of a stage
\* titles, vote averages, release years and popularities of catalog results
Results ==
    LET ResultTitles ==
            { <<"a", "b", " ", "c", "d">>, <<"A", "B", " ", "c", "d">>,
              <<"a", "b", " ", "c", "d", " ", "x">>, <<"a", "b">>,
              <<"c", "d", " ", "a", "b">>, <<"a", " ", "b">>, <<"b", " ", "a">>,
              <<"x", "y">> }
    IN
    {Result(t, v, y, pop) :
        t \in ResultTitles, v \in {0, 9}, y \in {0, 1990, 2010, 2025}, pop \in {0, 50}}

\* data.results with two results that differ in title or in release year
ResultPairs ==
    {r \in Results \X Results :
        /\ r[1].vote_average = r[2].vote_average
        /\ r[1].popularity = r[2].popularity
        /\ r[1].title = r[2].title \/ r[1].year = r[2].year}

\* lines 484-487: scoredResults = multiResults.map(...)
ScoreResults ==
    /\ scoredResults.pc = "fetched"
    /\ scoredResults' =
        [scoredResults EXCEPT
            !.pc = "scored",
            !.items = [i \in 1..Len(scoredResults.items) |->
                        [scoredResults.items[i] EXCEPT !.score =
                            calculateRelevanceScore(scoredResults.items[i].result,
                                                    scoredResults.query)]]]
    /\ UNCHANGED <<config, searchCache, lastRequestTime, now, locals, obs, lastStart,
                   watch, item, server, app>>

\* lines 490-501: the year-match bonus
AddYearBonus ==
    /\ scoredResults.pc = "scored"
    /\ scoredResults' =
        [scoredResults EXCEPT
            !.pc = "final",
            !.items = [i \in 1..Len(scoredResults.items) |->
                        [scoredResults.items[i] EXCEPT !.score =
                            \* item.score += 25
                            IF @.nan THEN NaN
                            ELSE Number(@.value
                                        + Bonus(scoredResults.items[i].result,
                                                scoredResults.extractedYear))]]]
    /\ UNCHANGED <<config, searchCache, lastRequestTime, now, locals, obs, lastStart,
                   watch, item, server, app>>

\* a search stage has received its results (line 482)
InitScoring ==
    LET
        \* the queries the resolver dispatches for the titles "ab-cd", "a b"
        ScoreQueries ==
            UNION { {generatePrioritizedQueries(t, <<>>)[k] :
                        k \in 1..Len(generatePrioritizedQueries(t, <<>>))} :
                    t \in {DashTitle[1], <<"a", " ", "b">>} }
    IN  /\ Constructed
        /\ server = loadData(<<>>, TRUE)
        /\ app = EmptyStore
        /\ item = NoItem
        /\ \E q \in ScoreQueries : \E y \in {NoYear, 2010, 2025} : \E r \in ResultPairs :
             scoredResults =
                [pc |-> "fetched", query |-> q, extractedYear |-> y,
                 items |-> [i \in 1..2 |-> [result |-> r[i], score |-> Number(0)]]]

SpecScoring ==
    InitScoring /\
    [][ScoreResults \/ AddYearBonus]_vars

\* ------------------------------------------------ one stage on one page
\* the longest data.results of a response: one more than searchMulti keeps
\* (a page of the catalog holds up to 20 results)
MaxPage == 11

\* searchMulti, searchTV or searchMovie returns its candidates
SearchReturns ==
    /\ scoredResults.pc = "response"
    /\ scoredResults' =
        [scoredResults EXCEPT
            !.pc = "results",
            !.items = StageResults(scoredResults.op, scoredResults.resp)]
    /\ UNCHANGED <<config, searchCache, lastRequestTime, now, locals, obs, lastStart,
                   watch, item, server, app>>

\* lines 482-524, 529-553, 559-582: the stage picks its best result, with
\* bestResult = null before it
PickBest ==
    /\ scoredResults.pc = "results"
    /\ scoredResults' =
        [scoredResults EXCEPT
            !.pc = "chosen",
            !.chosen =
                IF scoredResults.op = "multi"
                THEN FoldMulti(NoBest, scoredResults.items,
                               scoredResults.extractedYear)
                ELSE FoldSeparate(NoBest, scoredResults.items,
                                  scoredResults.extractedYear,
                                  scoredResults.op).best]
    /\ UNCHANGED <<config, searchCache, lastRequestTime, now, locals, obs, lastStart,
                   watch, item, server, app>>

\* a search operation is about to receive its response (lines 164, 187,
\* 209): the pages of Responses, and pages of PageSize and more results
InitStage ==
    /\ Constructed
    /\ server = loadData(<<>>, TRUE)
    /\ app = EmptyStore
    /\ item = NoItem
    /\ \E op \in {"multi", "tv", "movie"} : \E y \in {NoYear, 2024} :
       \E resp \in Responses \cup
                    {[ok |-> TRUE, results |-> [i \in 1..n |-> Cand(i, "tv", 10, 0)]] :
                        n \in PageSize..MaxPage} :
         scoredResults =
            [pc |-> "response", op |-> op, extractedYear |-> y, resp |-> resp,
             items |-> <<>>, chosen |-> NoBest]

SpecStage ==
    InitStage /\
    [][SearchReturns \/ PickBest]_vars

\* --------------------------------------------------- planning the queries
\* the longest primary title the planner is given
MaxTitle == 4

\* line 410: prioritizedQueries = this.generatePrioritizedQueries(...)
PlanQueries ==
    /\ item.pc = "call"
    /\ item' = [item EXCEPT
                    !.pc = "planned",
                    !.queries = generatePrioritizedQueries(item.title,
                                                           item.chineseTitle)]
    /\ UNCHANGED <<config, searchCache, lastRequestTime, now, locals, obs, lastStart,
                   watch, scoredResults, server, app>>

\* smartSearch is about to plan its queries (line 410) for a primary title
\* of letters, dashes and blanks and a localized title that is absent, too
\* short to survive preprocessQuery, or long enough
InitPlan ==
    /\ Constructed
    /\ server = loadData(<<>>, TRUE)
    /\ app = EmptyStore
    /\ scoredResults = NoScoring
    /\ \E n \in 0..MaxTitle : \E title \in [1..n -> {"a", "-", " "}] :
       \E chineseTitle \in {<<>>, <<"y">>, <<"x", "|", "y">>} :
         item = [pc |-> "call", title |-> title, chineseTitle |-> chineseTitle,
                 queries |-> <<>>]

SpecPlan ==
    InitPlan /\
    [][PlanQueries]_vars

\* ------------------------------------------------ refreshes of the page
\* manualRefreshSource / refreshSource of source p reads the store and calls
\* the fetch (lines 228-248)
StartRefresh(p) ==
    /\ app.frames[p].pc = "idle"
    /\ app.refreshes < MaxRefreshes
    /\ app' = [app EXCEPT !.refreshes = @ + 1,
                          !.frames[p].pc = "fetch",
                          !.frames[p].tvShows = app.tvShows]
    /\ UNCHANGED <<config, searchCache, lastRequestTime, now, locals, obs, lastStart,
                   watch, scoredResults, item, server>>

\* the fetch returns the feed with the titles that its items yield, or
\* fails (ok = FALSE: the catch of lines 304-315)
FetchReturns(p, ok, titles) ==
    /\ app.frames[p].pc = "fetch"
    /\ app' = IF ok
              THEN [app EXCEPT !.frames[p].pc = "extract",
                               !.frames[p].items = titles,
                               !.frames[p].showsMap = <<>>]
              ELSE [app EXCEPT !.frames[p].pc = "idle"]
    /\ UNCHANGED <<config, searchCache, lastRequestTime, now, locals, obs, lastStart,
                   watch, scoredResults, item, server>>

\* extractTVShows handles one item (part_003 lines 613-701), suspended at
\* its smartSearch: a title not in showsMap yet is set
ExtractItem(p) ==
    /\ app.frames[p].pc = "extract"
    /\ app.frames[p].items # <<>>
    /\ LET title == Head(app.frames[p].items)
       IN  app' = [app EXCEPT
                    !.frames[p].items = Tail(@),
                    !.frames[p].showsMap =
                        IF \E i \in 1..Len(@) : @[i] = title THEN @
                        ELSE Append(@, title)]
    /\ UNCHANGED <<config, searchCache, lastRequestTime, now, locals, obs, lastStart,
                   watch, scoredResults, item, server>>

\* lines 250-271: extractTVShows has returned; the shows are compared with
\* the tvShows read at the start, all are added to the store, and the
\* notification of the new ones is sent
AddShows(p) ==
    /\ app.frames[p].pc = "extract"
    /\ app.frames[p].items = <<>>
    /\ LET newShows == app.frames[p].showsMap
           existingTitles == {app.frames[p].tvShows[i].title :
                                i \in 1..Len(app.frames[p].tvShows)}
           reallyNewShows == SelectSeq(newShows, LAMBDA show : show \notin existingTitles)
       IN  app' = [app EXCEPT
                    !.tvShows = forEachAddTVShow(@, newShows),
                    !.sent = @ \o reallyNewShows,
                    !.frames[p].reallyNewShows = reallyNewShows,
                    !.frames[p].pc = IF reallyNewShows # <<>> THEN "notify" ELSE "idle"]
    /\ UNCHANGED <<config, searchCache, lastRequestTime, now, locals, obs, lastStart,
                   watch, scoredResults, item, server>>

\* lines 273-274: sendNewShowNotification has returned
NotificationReturns(p) ==
    /\ app.frames[p].pc = "notify"
    /\ app' = [app EXCEPT
                !.lastNotifiedShows =
                    @ \cup {app.frames[p].reallyNewShows[i] :
                                i \in 1..Len(app.frames[p].reallyNewShows)},
                !.frames[p].pc = "idle"]
    /\ UNCHANGED <<config, searchCache, lastRequestTime, now, locals, obs, lastStart,
                   watch, scoredResults, item, server>>

\* refreshes of different sources, in any interleaving; a feed has up to 2
\* items, which yield the titles "t1" and "t2"
SpecApp ==
    Init /\
    [][\E p \in 1..MaxSources :
        \/ StartRefresh(p)
        \/ \E ok \in BOOLEAN : \E n \in 0..2 : \E titles \in [1..n -> {"t1", "t2"}] :
                FetchReturns(p, ok, titles)
        \/ ExtractItem(p)
        \/ AddShows(p)
        \/ NotificationReturns(p)]_vars

\* ------------------------------------------------ the server's requests
\* lines 145-149: the delayed startAllRSSTimers
StartDelayed ==
    /\ ~server.started
    /\ server' = [startAllRSSTimers(server, Len(server.rssSourcesData))
                    EXCEPT !.started = TRUE]
    /\ UNCHANGED <<config, searchCache, lastRequestTime, now, locals, obs, lastStart,
                   watch, scoredResults, item, app>>

\* POST /api/rss/sources with a name and a url
PostSource(updateInterval) ==
    /\ server.created < MaxSources
    /\ LET newSource == [id |-> server.created + 1, updateInterval |-> updateInterval]
           pushed == [server EXCEPT !.rssSourcesData = Append(@, newSource),
                                    !.created = @ + 1]
       IN  server' = IF server.autoRefreshEnabled
                     THEN startRSSTimer(pushed, newSource)
                     ELSE pushed
    /\ UNCHANGED <<config, searchCache, lastRequestTime, now, locals, obs, lastStart,
                   watch, scoredResults, item, app>>

\* PUT /api/rss/sources/:id for an id that is found; a field of updates is
\* <<>> when the body does not name it
PutSource(id, updates) ==
    /\ \E i \in 1..Len(server.rssSourcesData) : server.rssSourcesData[i].id = id
    /\ updates.id # <<>> =>
            \/ updates.id[1] = 0
            \/ \E i \in 1..Len(server.rssSourcesData) :
                    server.rssSourcesData[i].id = updates.id[1]
    /\ LET sourceIndex == CHOOSE i \in 1..Len(server.rssSourcesData) :
                            /\ server.rssSourcesData[i].id = id
                            /\ \A j \in 1..(i - 1) : server.rssSourcesData[j].id # id
           source == server.rssSourcesData[sourceIndex]
           merged == [id |-> IF updates.id = <<>> THEN source.id ELSE updates.id[1],
                      updateInterval |-> IF updates.updateInterval = <<>>
                                         THEN source.updateInterval
                                         ELSE updates.updateInterval[1]]
           updated == [server EXCEPT !.rssSourcesData[sourceIndex] = merged]
       IN  server' = IF updates.updateInterval = <<>> THEN updated
                     ELSE IF server.autoRefreshEnabled
                          THEN startRSSTimer(stopRSSTimer(updated, id), merged)
                          ELSE stopRSSTimer(updated, id)
    /\ UNCHANGED <<config, searchCache, lastRequestTime, now, locals, obs, lastStart,
                   watch, scoredResults, item, app>>

\* DELETE /api/rss/sources/:id for an id that is found
DeleteSource(id) ==
    /\ \E i \in 1..Len(server.rssSourcesData) : server.rssSourcesData[i].id = id
    /\ LET sourceIndex == CHOOSE i \in 1..Len(server.rssSourcesData) :
                            /\ server.rssSourcesData[i].id = id
                            /\ \A j \in 1..(i - 1) : server.rssSourcesData[j].id # id
       IN  server' = [stopRSSTimer(server, id) EXCEPT
                        !.rssSourcesData = RemoveAt(@, sourceIndex)]
    /\ UNCHANGED <<config, searchCache, lastRequestTime, now, locals, obs, lastStart,
                   watch, scoredResults, item, app>>

\* POST /api/rss/auto-refresh
PostAutoRefresh(enabled) ==
    /\ LET set == [server EXCEPT !.autoRefreshEnabled = enabled]
       IN  server' = IF enabled
                     THEN startAllRSSTimers(set, Len(set.rssSourcesData))
                     ELSE stopAllRSSTimers(set)
    /\ UNCHANGED <<config, searchCache, lastRequestTime, now, locals, obs, lastStart,
                   watch, scoredResults, item, app>>

\* the requests of the page (autoRefreshManager.ts lines 83-85: an update
\* names updateInterval only) and updates that also name an id: 0, or the
\* id of a source
\* the process has loaded its data file: up to MaxSources sources with
\* their intervals, and the switch
InitServer ==
    /\ Constructed
    /\ scoredResults = NoScoring
    /\ item = NoItem
    /\ app = EmptyStore
    /\ \E n \in 0..MaxSources : \E intervals \in [1..n -> {0, DefaultInterval}] :
       \E enabled \in BOOLEAN :
         server = loadData([i \in 1..n |-> [id |-> i, updateInterval |-> intervals[i]]],
                           enabled)

SpecServer ==
    InitServer /\
    [][\/ StartDelayed
       \/ \E updateInterval \in {0, DefaultInterval} : PostSource(updateInterval)
       \/ \E id \in 0..MaxSources :
          \E newId \in {<<>>} \cup {<<i>> : i \in 0..MaxSources} :
          \E updateInterval \in {<<>>, <<0>>, <<DefaultInterval>>} :
            PutSource(id, [id |-> newId, updateInterval |-> updateInterval])
       \/ \E id \in 0..MaxSources : DeleteSource(id)
       \/ \E enabled \in BOOLEAN : PostAutoRefresh(enabled)]_vars

\* ------------------------------------------------- extraction of an item
\* the name, the release-group prefix, the season and episode marker and the
\* localized name of the first item of mockRSSItems
Name == <<"T", "h", "e", " ", "B", "e", "a", "r">>
Group == <<"[", "u9752", "u86D9", "P", "T", "]", " ">>
Marker == <<" ", "S", "0", "3", "E", "0", "1">>
Localized == <<"u718A", "u5BB6", "u9910", "u5385">>

\* a labelled line of a description
Line(a, b, value) == <<"u25CE", a, b, " ">> \o value

\* a description as the one of the first item of mockRSSItems: the primary
\* name, the line localized, the year and the genres (40 characters with the
\* line of the localized name); a long description repeats the genres and
\* the year and has ShortDescriptionLength characters or more
Description(localized, long) ==
    Line("u7247", "u540D", Name) \o <<"LF">> \o localized
        \o Line("u5E74", "u4EE3", <<"2", "0", "2", "2">>) \o <<"LF">>
        \o Line("u7C7B", "u578B", <<"u5267", "u60C5", "/", "u559C", "u5267">>)
        \o (IF long
            THEN <<"LF">> \o Line("u7C7B", "u578B", <<"u5267", "u60C5", "/", "u559C", "u5267">>)
                 \o <<"LF">> \o Line("u5E74", "u4EE3", <<"2", "0", "2", "2">>)
            ELSE <<>>)




\* lines 615-617: an item without a primary title is skipped
ExtractTitle ==
    /\ item.pc = "item"
    /\ LET extractedTitle == extractTVShowTitleFromBoth(item.title, item.description)
       IN  item' = [item EXCEPT !.extractedTitle = extractedTitle,
                                !.pc = IF extractedTitle.found THEN "titled"
                                       ELSE "skipped"]
    /\ UNCHANGED <<config, searchCache, lastRequestTime, now, locals, obs, lastStart,
                   watch, scoredResults, server, app>>

\* line 620
ExtractChineseTitle ==
    /\ item.pc = "titled"
    /\ item' = [item EXCEPT !.chineseTitle = extractChineseTitle(item.title,
                                                                 item.description),
                            !.pc = "extracted"]
    /\ UNCHANGED <<config, searchCache, lastRequestTime, now, locals, obs, lastStart,
                   watch, scoredResults, server, app>>

\* extractTVShows takes an item of the feed (part_003 line 613)
InitExtract ==
    LET
        ItemTitles ==
            { prefix \o name \o suffix :
                prefix \in {<<>>, Group, Slice(Localized, 2) \o <<" ">>, Localized \o <<" ">>},
                name \in {Name, Slice(Name, 2)},
                suffix \in {<<>>, Marker, <<" ", "2", "0", "2", "2">>} }
        ItemDescriptions ==
            { <<>>,
              Description(Line("u8BD1", "u540D", Localized) \o <<"LF">>, FALSE),
              Description(Line("u8BD1", "u540D", Localized) \o <<"LF">>, TRUE),
              Description(Line("u8BD1", "u540D", Slice(Localized, 2)) \o <<"LF">>, TRUE),
              Description(<<>>, TRUE),
              <<"[">> \o Name \o Marker \o <<"]">> }
    IN  /\ Constructed
        /\ server = loadData(<<>>, TRUE)
        /\ app = EmptyStore
        /\ scoredResults = NoScoring
        /\ \E title \in ItemTitles : \E description \in ItemDescriptions :
             item = [pc |-> "item", title |-> title, description |-> description,
                     extractedTitle |-> None, chineseTitle |-> None]

SpecExtract ==
    InitExtract /\
    [][ExtractTitle \/ ExtractChineseTitle]_vars

\* two concurrent callers and more keys than the cache holds
SpecEvict ==
    Init /\ [][NextOf(Procs, {EmptyTitle, BlankTitle, DashTitle}, {Strong}, {Enabled},
                      {FALSE})]_vars

\* ------------------------------------------------------------------ claims
Running(p) == locals[p].pc # "idle"
Done(p) == locals[p].pc = "done"
\* a call that was configured and missed the cache has completed
Resolved(p) == Done(p) /\ obs[p].cfg /\ ~obs[p].hit

\* C1: a call made while the client is disabled or has no API key, or with
\* an empty or whitespace-only primary title, issues no outbound request and
\* returns null
C1_NullWithoutRequest ==
    \A p \in Procs :
        (Running(p) /\ (~obs[p].cfg \/ Trim(locals[p].title) = <<>>))
            => /\ obs[p].sent = 0
               /\ Done(p) => locals[p].result = NoUrl

\* C2 (as claimed): a call for a pair made less than the expiry time after
\* a completed call for the same pair issues no outbound request and
\* returns the result of that call
C2_SecondCallIdentical ==
    \A p \in Procs :
        obs[p].expect.set
            => /\ obs[p].sent = 0
               /\ Done(p) => locals[p].result = obs[p].expect.r

\* C2 (amended): the same, when the cache still holds, unexpired, the entry
\* that the first call returned or wrote
C2_SecondCallIdenticalWhileKept ==
    \A p \in Procs :
        obs[p].expectKept.set
            => /\ obs[p].sent = 0
               /\ Done(p)
               /\ locals[p].result = obs[p].expectKept.r

C2_Witness ==
    \E p \in Procs :
        /\ obs[p].expectKept.set
        /\ Done(p)
        /\ locals[p].result # NoUrl

\* C3: a call made while the client is configured and the cache holds an
\* unexpired entry for its key returns the value of that entry at once,
\* issues no outbound request and changes neither the cache nor
\* lastRequestTime
C3_CacheHitIsDone ==
    [][\A p \in Procs :
         (/\ locals[p].pc = "idle"
          /\ locals'[p].pc # "idle"
          /\ Configured(config)
          /\ LET entry == EntryOf(searchCache,
                                  CacheKey(locals'[p].title, locals'[p].chineseTitle))
             IN  entry # NoEntry /\ now - entry.timestamp <= CacheExpireTicks)
            => /\ locals'[p].pc = "done"
               /\ locals'[p].result =
                    EntryOf(searchCache,
                            CacheKey(locals'[p].title, locals'[p].chineseTitle)).result
               /\ obs'[p].sent = 0
               /\ searchCache' = searchCache
               /\ lastRequestTime' = lastRequestTime]_vars

C3_Witness ==
    \E p \in Procs :
        /\ Done(p)
        /\ obs[p].hit
        /\ locals[p].result # NoUrl
        /\ Len(searchCache) = 2
        /\ searchCache[1].key = locals[p].cacheKey

\* C4: when every request of a resolution has failed, the resolution
\* returns null and the cache holds null under its key once it has stored
\* its result
C4_AllFailedIsCachedNull ==
    [][\A p \in Procs :
         (/\ locals[p].pc = "store"
          /\ locals'[p].pc = "done"
          /\ obs[p].allFailed)
            => /\ locals'[p].result = NoUrl
               /\ EntryOf(searchCache', locals[p].cacheKey) # NoEntry
               /\ EntryOf(searchCache', locals[p].cacheKey).result = NoUrl]_vars

C4_Witness ==
    \E p \in Procs :
        /\ Done(p)
        /\ obs[p].allFailed
        /\ obs[p].sent = 3
        /\ locals[p].result = NoUrl
        /\ EntryOf(searchCache, locals[p].cacheKey) # NoEntry
        /\ EntryOf(searchCache, locals[p].cacheKey).result = NoUrl

\* C5: an outbound request starts at least minRequestInterval after the
\* start of the previous outbound request, whichever caller issued it
C5_RequestsSpaced ==
    [][\A p \in Procs :
         obs'[p].sent > obs[p].sent
            => (lastStart = -1 \/ now - lastStart >= MinRequestInterval)]_vars

\* once bestResult is a TV link it stays a TV link until the call returns
TvKept ==
    \A p \in Procs :
        (locals[p].best.url.media_type = "tv" /\ locals'[p].pc # "idle")
            => /\ locals'[p].best.url.media_type = "tv"
               /\ locals'[p].pc = "done" => locals'[p].result.media_type = "tv"

C8_OneWriteAtTheEnd ==
    \A p \in Procs :
        /\ locals[p].pc \in {"wait", "req", "store"} => obs[p].writes = 0
        /\ Resolved(p) => obs[p].writes = 1

C8_Witness ==
    \E p \in Procs : \E q \in Procs :
        /\ Resolved(p)
        /\ obs[p].writes = 1
        /\ obs[p].sent >= 1
        /\ q # p
        /\ locals[q].pc \in {"wait", "req"}

\* C9: every query in flight is at least 3 characters long, and a call
\* with a primary title shorter than 3 characters issues no outbound
\* request and returns null
C9_QueriesAtLeast3 ==
    \A p \in Procs :
        /\ locals[p].pc = "req" => Len(locals[p].queries[locals[p].qi]) >= 3
        /\ (Running(p) /\ obs[p].cfg /\ ~obs[p].hit /\ Len(locals[p].title) < 3)
            => /\ obs[p].sent = 0
               /\ Done(p) => locals[p].result = NoUrl

\* C10: a call that returns from the cache returns an entry that a call
\* with the same (primary, localized) pair wrote
C10_EntryOfOwnPair ==
    \A p \in Procs :
        (Done(p) /\ obs[p].hit)
            => <<obs[p].hitOwner[2], obs[p].hitOwner[3]>> = Pair(locals[p])

Keys(cache) == {cache[i].key : i \in 1..Len(cache)}

\* C11: the cache never holds more than its capacity, and when a write
\* removes an entry it removes exactly one, which is not the entry just
\* written and has the oldest write timestamp of the entries held
C11_EvictsOldest ==
    /\ [](Len(searchCache) <= MaxCacheSize)
    /\ [][\A p \in Procs :
            (locals[p].pc = "store" /\ locals'[p].pc = "done")
                => /\ locals[p].cacheKey \in Keys(searchCache')
                   /\ Cardinality(Keys(searchCache) \ Keys(searchCache')) <= 1
                   /\ \A e \in Entries(searchCache) :
                        e.key \notin Keys(searchCache')
                            => \A f \in Entries(searchCache) :
                                    e.timestamp <= f.timestamp]_vars

\* C12: a call never returns the value of an entry written more than the
\* expiry time earlier; a call that finds such an entry removes it, goes on
\* to search, and its result is stored under the key with the timestamp of
\* the moment it is stored
C12_ExpiredIsSearchedAgain ==
    /\ [](\A p \in Procs :
            (Done(p) /\ obs[p].hit) => obs[p].doneAt - obs[p].ts <= CacheExpireTicks)
    /\ [][\A p \in Procs :
            (/\ locals[p].pc = "idle"
             /\ locals'[p].pc # "idle"
             /\ Configured(config)
             /\ EntryOf(searchCache, locals'[p].cacheKey) # NoEntry
             /\ now - EntryOf(searchCache, locals'[p].cacheKey).timestamp
                    > CacheExpireTicks)
                => /\ locals'[p].cacheKey \notin Keys(searchCache')
                   /\ locals'[p].pc \in {"wait", "req", "store"}
                   /\ obs'[p].expired]_vars
    /\ [][\A p \in Procs :
            (locals[p].pc = "store" /\ locals'[p].pc = "done" /\ obs[p].expired)
                => /\ locals[p].cacheKey \in Keys(searchCache')
                   /\ EntryOf(searchCache', locals[p].cacheKey).timestamp = now
                   /\ EntryOf(searchCache', locals[p].cacheKey).result
                        = locals'[p].result]_vars

C12_Witness ==
    \E p \in Procs :
        /\ Done(p)
        /\ obs[p].expired
        /\ obs[p].sent >= 1
        /\ locals[p].result # NoUrl
        /\ EntryOf(searchCache, locals[p].cacheKey).timestamp = now

\* C13: every score computed for a result and a dispatched query, before
\* and after the year bonus, is a non-negative integer
C13_ScoreIsNonNegativeInteger ==
    scoredResults.pc \in {"scored", "final"}
        => \A i \in 1..Len(scoredResults.items) :
                /\ ~scoredResults.items[i].score.nan
                /\ scoredResults.items[i].score.value >= 0


\* C14: of two results with the same vote average, release date and
\* popularity, one whose title equals the query scores at least as much as
\* one that matches the query only partially
C14_ExactAtLeastPartial ==
    LET a == scoredResults.items[1]
        b == scoredResults.items[2]
        q == toLowerCase(scoredResults.query)
        \* the title of a equals the query, case-insensitively
        exact == toLowerCase(a.result.title) = q
        \* the title of b is not the query but contains it, is contained
        \* in it, or shares a word with it
        t == toLowerCase(b.result.title)
        partial ==
            /\ t # q
            /\ \/ Includes(t, q)
               \/ Includes(q, t)
               \/ \E i \in 1..Len(WordsLongerThan(t, 0, <<>>)) :
                  \E j \in 1..Len(WordsLongerThan(q, 0, <<>>)) :
                        WordsLongerThan(t, 0, <<>>)[i] = WordsLongerThan(q, 0, <<>>)[j]
    IN  (/\ scoredResults.pc \in {"scored", "final"}
         /\ a.result.year = b.result.year
         /\ exact
         /\ partial)
            => /\ ~a.score.nan
               /\ ~b.score.nan
               /\ a.score.value >= b.score.value

\* C15: of two results that differ only in release year, one within a year
\* of the extracted year and one further away, the first ends with a score
\* exactly 25 above the second (whenever both scores are numbers)
C15_YearBonusIs25 ==
    LET a == scoredResults.items[1]
        b == scoredResults.items[2]
        y == scoredResults.extractedYear
    IN  (/\ scoredResults.pc = "final"
         /\ y # NoYear
         /\ a.result.title = b.result.title
         /\ a.result.year # 0
         /\ Abs(a.result.year - y) <= 1
         /\ b.result.year # 0
         /\ Abs(b.result.year - y) > 1
         /\ ~a.score.nan
         /\ ~b.score.nan)
            => a.score.value - b.score.value = YearBonus

C17_LabelledLocalizedTitle ==
    \A x \in {Localized, Slice(Localized, 2)} :
        LET labelled == Line("u8BD1", "u540D", x) \o <<"LF">>
        IN  item.pc = "extracted" /\ item.description \in {Description(labelled, FALSE),
                                                           Description(labelled, TRUE)}
                => item.chineseTitle = Found(x)

\* C18: for a title made of a bracketed release group, a name and a season
\* and episode marker, the extracted title is the name and the item is not
\* skipped.
C18_GroupPrefixIsStripped ==
    item.pc # "item" /\ item.title = Group \o Name \o Marker
        => item.pc # "skipped" /\ item.extractedTitle = Found(Name)

C20_OneOperationAtATime ==
    [][\A p \in Procs :
        LET l == locals[p]
            m == locals'[p]
        IN  /\ m.op # l.op =>
                /\ <<l.op, m.op>> \in {<<"none", "multi">>, <<"multi", "tv">>,
                                       <<"tv", "movie">>, <<"multi", "none">>,
                                       <<"tv", "none">>, <<"movie", "none">>}
                /\ l.op # "none" => l.pc = "req"
                /\ m.op # "none" =>
                    /\ m.pc \in {"wait", "req"}
                    /\ m.qi = l.qi + (IF l.op = "none" THEN 1 ELSE 0)
            /\ m.op = l.op /\ l.op # "none" =>
                <<l.pc, m.pc>> \in {<<"wait", "wait">>, <<"wait", "req">>, <<"req", "req">>}
            /\ l.op = "multi" /\ m.op = "tv" =>
                m.best = NoBest \/ m.best.score < WeakScore
            /\ obs'[p].sent <= 3
      ]_vars

\* the movie-only search of a resolution is in flight after a combined
\* search that left a best result scoring less than 65
C20_Witness ==
    \E p \in Procs :
        /\ locals[p].pc = "req"
        /\ locals[p].op = "movie"
        /\ locals[p].best # NoBest
        /\ locals[p].best.score < WeakScore
        /\ obs[p].sent = 3

\* C21: as soon as the best score of a resolution is 75 or more, the
\* resolution sends no further request and its result is the link of that
\* best candidate.
C21_EarlyExit ==
    /\ [](\A p \in Procs :
            locals[p].best # NoBest /\ locals[p].best.score >= StrongScore
                => /\ locals[p].pc \in {"store", "done"}
                   /\ locals[p].result = locals[p].best.url)
    /\ [][\A p \in Procs :
            locals[p].best # NoBest /\ locals[p].best.score >= StrongScore
                => obs'[p].sent <= obs[p].sent]_vars

\* a resolution returned from its TV-only search with a score of 75 or more:
\* the movie-only search was never sent
C21_Witness ==
    \E p \in Procs :
        /\ locals[p].pc = "done"
        /\ locals[p].best # NoBest
        /\ locals[p].best.score >= StrongScore
        /\ locals[p].best.url.media_type = "tv"
        /\ obs[p].sent = 2

\* C22: when every request is answered, every resolution reaches done (in
\* the model: unless its next request is due after the last instant of the
\* clock), having dispatched at most 2 queries and at most 3 requests for
\* each of them.
C22_BoundedTermination ==
    /\ \A p \in Procs :
         [](locals[p].pc \notin {"idle", "done"}
              => <>(\/ locals[p].pc = "done"
                    \/ locals[p].pc = "wait" /\ locals[p].wake > MaxTime))
    /\ [](\A p \in Procs : locals[p].qi <= 2 /\ obs[p].sent <= 3 * locals[p].qi)

\* a resolution is done after three requests, the last of which succeeded
C22_Witness ==
    \E p \in Procs :
        /\ locals[p].pc = "done"
        /\ obs[p].sent = 3
        /\ ~obs[p].allFailed

\* C23: a search operation whose first HTTP attempt fails makes a further
\* attempt, after a delay, before it gives its empty result.
C23_FailedAttemptIsRetried ==
    [][\A p \in Procs :
         /\ locals[p].pc = "req"
         /\ locals[p].attempt = 0
         /\ obs'[p].failures > obs[p].failures
         => /\ locals'[p].pc = "retry"
            /\ locals'[p].op = locals[p].op
            /\ locals'[p].attempt = 1
            /\ locals'[p].wake > now
      ]_vars

\* C24: after two overlapping resolutions of the same pair have completed
\* (both searched and wrote), the cache holds exactly one entry for the key,
\* the one written by the resolution that finished last, and when both got
\* the same responses (the catalog answers Fail or Strong, and Strong ends a
\* resolution: as many requests and as many failures) they wrote the same
\* value.
C24_LastWriterWins ==
    \A p, q \in Procs :
        /\ p # q
        /\ locals[p].pc = "done" /\ locals[q].pc = "done"
        /\ Pair(locals[p]) = Pair(locals[q])
        /\ obs[p].cfg /\ ~obs[p].hit
        /\ obs[q].cfg /\ ~obs[q].hit
        /\ obs[p].doneAt <= obs[q].doneAt
        => LET key == locals[q].cacheKey
               entry == EntryOf(searchCache, key)
           IN  /\ Cardinality({i \in 1..Len(searchCache) : searchCache[i].key = key}) = 1
               /\ entry.owner[1] = q \/ obs[p].doneAt = obs[q].doneAt
               /\ entry.result = locals[entry.owner[1]].result
               /\ entry.timestamp = obs[q].doneAt
               /\ obs[p].sent = obs[q].sent /\ obs[p].failures = obs[q].failures
                    => locals[p].result = locals[q].result

\* two resolutions of the same pair overlapped (the second missed the cache
\* and finished before the entry of the first could expire), got the same
\* responses, and the later one rewrote the link of the earlier one
C24_Witness ==
    \E p, q \in Procs :
        /\ p # q
        /\ locals[p].pc = "done" /\ locals[q].pc = "done"
        /\ Pair(locals[p]) = Pair(locals[q])
        /\ obs[p].cfg /\ ~obs[p].hit
        /\ obs[q].cfg /\ ~obs[q].hit
        /\ obs[p].doneAt < obs[q].doneAt
        /\ obs[q].doneAt - obs[p].doneAt <= CacheExpireTicks
        /\ obs[p].sent = 2 /\ obs[q].sent = 2
        /\ obs[p].failures = 1 /\ obs[q].failures = 1
        /\ locals[q].result # NoUrl

\* C25: when the TMDB settings have the proxy enabled with a host, every
\* outbound request uses the proxy, those of the resolutions started by the
\* feed processing included.
C25_EveryRequestProxied == \A p \in Procs : ~obs[p].direct

\* C26: in every search stage the year bonus is part of a candidate's score
\* before the candidates are ranked: when a stage has picked, no candidate
\* of the page that clears the stage's threshold with its bonus is left
\* unpicked, and none of the picked media type scores more than the pick
C26_BonusBeforeRanking ==
    scoredResults.pc = "chosen" =>
        \A i \in 1..Len(scoredResults.items) :
            LET r == scoredResults.items[i]
                score == Scored(r, scoredResults.extractedYear)
            IN  /\ r.media_type \in {"tv", "movie"}
                /\ score > (IF scoredResults.op = "multi" THEN LowScore
                            ELSE SeparateScore)
                => /\ scoredResults.chosen # NoBest
                   /\ r.media_type = scoredResults.chosen.url.media_type
                        => score <= scoredResults.chosen.score

\* C28: a search operation returns at most 10 candidates, whatever the
\* length of the page the catalog answers with
C28_AtMostTenCandidates ==
    scoredResults.pc \in {"results", "chosen"} =>
        Len(scoredResults.items) <= PageSize

C29_TimersMatchSources ==
    /\ \A i \in 1..Len(server.rssSourcesData) :
            Cardinality({t \in server.intervals :
                            t.id = server.rssSourcesData[i].id}) <= 1
    /\ server.intervals = server.refreshTimers
    /\ \A e \in server.refreshTimers :
            \E i \in 1..Len(server.rssSourcesData) :
                server.rssSourcesData[i].id = e.id
    /\ ~server.autoRefreshEnabled => server.refreshTimers = {}

\* C30: a new-show notification is sent for a title only if the store
\* never recorded the title before, hence at most once per title
C30_NotifiedAtMostOnce ==
    \A i \in 1..Len(app.sent) : \A j \in 1..Len(app.sent) :
        i # j => app.sent[i] # app.sent[j]

====
